---- MODULE Spec2Model ----
(***************************************************************************)
(* alterguard: migration orchestration (task.Manager), external process    *)
(* supervision (ptosc.PtOscExecutor / ptarchiver.PtArchiverExecutor) and   *)
(* the execution-time monitor of SwapTable.                                *)
(*                                                                         *)
(* Text is modelled as a sequence of words: a line or a statement is a     *)
(* tuple of strings, strings.ToLower maps each word, strings.TrimSpace     *)
(* drops leading and trailing empty words, strings.HasPrefix and           *)
(* strings.Contains compare word-wise.                                     *)
(***************************************************************************)
EXTENDS Integers, Sequences, FiniteSets, TLC

(***************************************************************************)
(* Bounds of the model.                                                    *)
(***************************************************************************)
\* lines a supervised process writes to stdout and stderr together
MaxLines == 2

(***************************************************************************)
(* Text helpers.                                                           *)
(***************************************************************************)
LowerWord(w) ==
  CASE w = "Access" -> "access"
    [] w = "DENIED" -> "denied"
    [] w = "ERROR:" -> "error:"
    [] w = "Fatal:" -> "fatal:"
    [] w = "Error" -> "error"
    [] w = "Unknown" -> "unknown"
    [] w = "Column" -> "column"
    [] OTHER -> w

ToLower(line) == [i \in DOMAIN line |-> LowerWord(line[i])]

RECURSIVE TrimLeft(_)
TrimLeft(line) ==
  IF line # <<>> /\ Head(line) = "" THEN TrimLeft(Tail(line)) ELSE line

RECURSIVE TrimRight(_)
TrimRight(line) ==
  IF line # <<>> /\ line[Len(line)] = ""
  THEN TrimRight(SubSeq(line, 1, Len(line) - 1))
  ELSE line

TrimSpace(line) == TrimRight(TrimLeft(line))

HasPrefix(line, prefix) ==
  /\ Len(line) >= Len(prefix)
  /\ SubSeq(line, 1, Len(prefix)) = prefix

Contains(line, part) ==
  \E i \in 1..(Len(line) - Len(part) + 1) :
    SubSeq(line, i, i + Len(part) - 1) = part

(***************************************************************************)
(* External process executor: one invocation of ExecuteAlter,              *)
(* ExecuteAlterWithDryRunResult (with a DryRunResult) or ExecutePurge.     *)
(***************************************************************************)
Variants == {"ExecuteAlter", "ExecuteAlterWithDryRunResult", "ExecutePurge"}
Streams == {"stdout", "stderr"}

ToolName(variant) ==
  IF variant = "ExecutePurge" THEN "pt-archiver:" ELSE "pt-online-schema-change:"

ErrorPrefixes(variant) ==
  { <<"error:">>, <<"fatal:">>,
    <<ToolName(variant), "error">>, <<ToolName(variant), "fatal">> }

PtOscMysqlErrors ==
  { <<"you", "have", "an", "error", "in", "your", "sql", "syntax">>,
    <<"unknown", "column">>, <<"unknown", "table">>,
    <<"duplicate", "column", "name">>, <<"duplicate", "key", "name">>,
    <<"doesn't", "exist">>, <<"can't", "create", "table">>,
    <<"can't", "drop", "table">>,
    <<"can't", "add", "foreign", "key", "constraint">>,
    <<"duplicate", "entry">>, <<"column", "cannot", "be", "null">>,
    <<"data", "too", "long", "for", "column">>,
    <<"out", "of", "range", "value">>, <<"access", "denied">>,
    <<"connection", "refused">>, <<"lost", "connection">>,
    <<"cannot", "connect", "to", "mysql">>, <<"cannot", "read", "response">>,
    <<"can't", "locate", "term/readkey">>, <<"operation", "failed">> }

PtArchiverMysqlErrors ==
  { <<"you", "have", "an", "error", "in", "your", "sql", "syntax">>,
    <<"unknown", "column">>, <<"unknown", "table">>,
    <<"doesn't", "exist">>, <<"can't", "create", "table">>,
    <<"access", "denied">>, <<"connection", "refused">>,
    <<"lost", "connection">>, <<"cannot", "connect", "to", "mysql">>,
    <<"operation", "failed">> }

MysqlErrors(variant) ==
  IF variant = "ExecutePurge" THEN PtArchiverMysqlErrors ELSE PtOscMysqlErrors

containsErrorPattern(variant, rawLine) ==
  LET line == ToLower(TrimSpace(rawLine)) IN
    \/ \E prefix \in ErrorPrefixes(variant) : HasPrefix(line, prefix)
    \/ \E errMsg \in MysqlErrors(variant) : Contains(line, errMsg)

\* the lines a supervised tool may print
LineCopying == <<"Copying", "rows">>
LineDenied == <<"", "Access", "DENIED", "for", "user">>
LineToolError == <<"pt-online-schema-change:", "Error", "x">>
ToolLines == {LineCopying, LineDenied, LineToolError}

(***************************************************************************)
(* Connection strings and argument lists.  A string is the tuple of its    *)
(* tokens; the separators ParseDSN splits on are tokens of their own.      *)
(***************************************************************************)
\* strings.Split(s, sep): the pieces of s between the occurrences of sep
RECURSIVE Split(_, _)
Split(s, sep) ==
  LET hits == {i \in 1..(Len(s) - Len(sep) + 1) :
                 SubSeq(s, i, i + Len(sep) - 1) = sep}
  IN IF hits = {} THEN <<s>>
     ELSE LET i == CHOOSE k \in hits : \A j \in hits : k <= j IN
            <<SubSeq(s, 1, i - 1)>>
              \o Split(SubSeq(s, i + Len(sep), Len(s)), sep)

\* strconv.Atoi succeeds on these tokens
NumberTokens == {"3306"}

DsnError == [err |-> TRUE, host |-> <<>>, port |-> <<>>, database |-> <<>>,
             user |-> <<>>, password |-> <<>>]

\* ParseDSN of the two executors: pt-archiver's drops the parameters after
\* `?` from the database name, pt-osc's requires a numeric port
ParseDSN(variant, dsn) ==
  LET parts == Split(dsn, <<"@tcp">>) IN
  IF Len(parts) # 2 THEN DsnError
  ELSE
  LET userParts == Split(parts[1], <<":">>)
      hostPart == parts[2]
  IN
  IF Len(userParts) > 2 THEN DsnError
  ELSE IF hostPart = <<>> \/ Head(hostPart) # "(" THEN DsnError
  ELSE
  LET rest == Split(Tail(hostPart), <<")", "/">>) IN
  IF Len(rest) # 2 THEN DsnError
  ELSE
  LET hostPortParts == Split(rest[1], <<":">>)
      database == IF variant = "ExecutePurge" /\ Contains(rest[2], <<"?">>)
                  THEN Split(rest[2], <<"?">>)[1]
                  ELSE rest[2]
  IN
  IF Len(hostPortParts) # 2 THEN DsnError
  ELSE IF /\ variant # "ExecutePurge"
          /\ ~(\E n \in NumberTokens : hostPortParts[2] = <<n>>)
  THEN DsnError
  ELSE [err |-> FALSE,
        host |-> hostPortParts[1],
        port |-> hostPortParts[2],
        database |-> database,
        user |-> userParts[1],
        password |-> IF Len(userParts) = 2 THEN userParts[2] ELSE <<>>]

\* values of config.PtOscConfig: the flags move together in two groups
PtOscConfigs ==
  { [Charset |-> IF on THEN <<"utf8mb4">> ELSE <<>>,
     RecursionMethod |-> r,
     NoSwapTables |-> on,
     ChunkSize |-> IF on THEN 1000 ELSE 0,
     MaxLag |-> IF on THEN 0 ELSE 1,
     Statistics |-> ~on,
     DryRun |-> d,
     NoDropTriggers |-> on,
     NoDropNewTable |-> ~on,
     NoDropOldTable |-> on] :
    on \in BOOLEAN, d \in BOOLEAN,
    r \in {<<>>, <<"dsn">>, <<"dsn=D=", "<db>", ",t=", "<table>">>} }

\* values of config.PtArchiverConfig: the flags move together
PtArchiverConfigs ==
  { [Enabled |-> e,
     Where |-> IF on THEN <<"id", "<", "9">> ELSE <<>>,
     Limit |-> IF on THEN 1000 ELSE 0,
     CommitEach |-> on,
     Progress |-> IF on THEN 0 ELSE 1000,
     MaxLag |-> IF on THEN 1 ELSE 0,
     NoCheckCharset |-> ~on,
     BulkDelete |-> on,
     PrimaryKeyOnly |-> ~on,
     Statistics |-> on] :
    e \in BOOLEAN, on \in BOOLEAN }

\* fmt %d and %f of the numbers the configurations hold
FormatD(n) == IF n = 1000 THEN "1000" ELSE "0"
FormatF(n) == IF n = 1 THEN "1.000000" ELSE "0.000000"

Opt(cond, arg) == IF cond THEN <<arg>> ELSE <<>>

\* strings.ReplaceAll of <db> and <table> in the recursion method
ReplacePlaceholders(method, database, tableName) ==
  LET pieces == [i \in DOMAIN method |->
                   IF method[i] = "<db>" THEN database
                   ELSE IF method[i] = "<table>" THEN tableName
                   ELSE <<method[i]>>]
      Flat[i \in 0..Len(method)] ==
        IF i = 0 THEN <<>> ELSE Flat[i - 1] \o pieces[i]
  IN Flat[Len(method)]

\* a mode argument that honours only the caller's flag
PtOscModeArgForcedOnly(forceDryRun, configDryRun) ==
  IF forceDryRun THEN <<"--dry-run">> ELSE <<"--execute">>

\* the mode argument of pt-online-schema-change
PtOscModeArg(forceDryRun, configDryRun) ==
  IF forceDryRun \/ configDryRun THEN <<"--dry-run">> ELSE <<"--execute">>

\* PtOscExecutor.BuildArgsWithPassword
PtOscBuildArgs(tableName, alterStatement, ptOscConfig, rawDSN, forceDryRun) ==
  LET d == ParseDSN("ExecuteAlter", rawDSN)
      ptOscDSN == <<"h=">> \o d.host \o <<",P=">> \o d.port \o <<",D=">>
                    \o d.database \o <<",t=">> \o tableName \o <<",u=">>
                    \o d.user
      method == ReplacePlaceholders(ptOscConfig.RecursionMethod, d.database,
                                    tableName)
  IN IF d.err THEN [err |-> TRUE, args |-> <<>>, password |-> <<>>]
     ELSE [err |-> FALSE,
           args |-> << <<"--alter=">> \o alterStatement >>
             \o Opt(ptOscConfig.Charset # <<>>,
                    <<"--charset=">> \o ptOscConfig.Charset)
             \o Opt(ptOscConfig.RecursionMethod # <<>>,
                    <<"--recursion-method=">> \o method)
             \o Opt(ptOscConfig.RecursionMethod # <<>> /\ method = <<"dsn">>,
                    <<"--recursion-dsn=">> \o ptOscDSN)
             \o Opt(d.password # <<>>, <<"--ask-pass">>)
             \o Opt(ptOscConfig.NoSwapTables, <<"--no-swap-tables">>)
             \o Opt(ptOscConfig.ChunkSize > 0,
                    <<"--chunk-size=", FormatD(ptOscConfig.ChunkSize)>>)
             \o Opt(ptOscConfig.MaxLag > 0,
                    <<"--max-lag=", FormatF(ptOscConfig.MaxLag)>>)
             \o Opt(ptOscConfig.Statistics, <<"--statistics">>)
             \o Opt(ptOscConfig.NoDropTriggers, <<"--no-drop-triggers">>)
             \o Opt(ptOscConfig.NoDropNewTable, <<"--no-drop-new-table">>)
             \o Opt(ptOscConfig.NoDropOldTable, <<"--no-drop-old-table">>)
             \o <<PtOscModeArg(forceDryRun, ptOscConfig.DryRun)>>
             \o <<ptOscDSN>>,
           password |-> d.password]

\* the dry-run argument of pt-archiver
PtArchiverDryRunArg(dry) == Opt(dry, <<"--dry-run">>)

\* PtArchiverExecutor.BuildArgsWithPassword
PtArchiverBuildArgs(tableName, ptArchiverConfig, rawDSN, dry) ==
  LET d == ParseDSN("ExecutePurge", rawDSN) IN
    IF d.err THEN [err |-> TRUE, args |-> <<>>, password |-> <<>>]
    ELSE [err |-> FALSE,
          args |-> << <<"--source=", "h=">> \o d.host \o <<",P=">> \o d.port
                        \o <<",D=">> \o d.database \o <<",t=">> \o tableName,
                      <<"--user=">> \o d.user >>
            \o Opt(d.password # <<>>, <<"--password=">> \o d.password)
            \o << <<"--where=">> \o (IF ptArchiverConfig.Where # <<>>
                                     THEN ptArchiverConfig.Where
                                     ELSE <<"1=1">>) >>
            \o Opt(ptArchiverConfig.Limit > 0,
                   <<"--limit=", FormatD(ptArchiverConfig.Limit)>>)
            \o Opt(ptArchiverConfig.CommitEach, <<"--commit-each">>)
            \o << <<"--purge">> >>
            \o Opt(ptArchiverConfig.Progress > 0,
                   <<"--progress=", FormatD(ptArchiverConfig.Progress)>>)
            \o Opt(ptArchiverConfig.MaxLag > 0,
                   <<"--max-lag=", FormatF(ptArchiverConfig.MaxLag)>>)
            \o Opt(ptArchiverConfig.NoCheckCharset, <<"--no-check-charset">>)
            \o Opt(ptArchiverConfig.BulkDelete, <<"--bulk-delete">>)
            \o Opt(ptArchiverConfig.PrimaryKeyOnly, <<"--primary-key-only">>)
            \o Opt(ptArchiverConfig.Statistics, <<"--statistics">>)
            \o PtArchiverDryRunArg(dry),
          password |-> d.password]

\* the masked copy of the arguments the executors log before starting
MaskedArgs(variant, args) ==
  [i \in DOMAIN args |->
     IF variant = "ExecutePurge"
     THEN IF HasPrefix(args[i], <<"--password=">>)
          THEN <<"--password=[masked]">> ELSE args[i]
     ELSE IF args[i] = <<"--ask-pass">>
          THEN <<"--ask-pass", "[password", "masked]">> ELSE args[i]]

\* cmd.Stdin: pt-osc is given the password and a newline, pt-archiver
\* nothing
StdinOf(variant, password) ==
  IF variant # "ExecutePurge" /\ password # <<>>
  THEN password \o <<"\n">> ELSE <<>>


VARIABLES
  exInput,        \* the arguments of the entry point
  exArgs,         \* argument list of the started process
  exLog,          \* the command line written to the log
  exStdin,        \* what the process is given on standard input
  exVariant,      \* which entry point runs
  exPc,           \* position of the calling goroutine
  procState,      \* the child process: "none", "running", "exited"
  exitCode,       \* exit status of the child once exited
  emitted,        \* per stream, every line the child has written
  pipe,           \* per stream, lines written and not yet read
  pipeClosed,     \* cmd.Wait closed the parent's read ends
  drainPc,        \* per stream, position of the drain goroutine
  drainBuf,       \* per stream, lines read into the scanner's buffer
  drainLine,      \* per stream, scanner.Text() of the current iteration
  drainLoad,      \* per stream, Summary value read by an unlocked +=
  hasError,       \* e.hasError
  errorMessages,  \* e.errorMessages
  outputSummary,  \* e.outputSummary, or result.Summary for the dry-run variant
  verdict         \* "none", "success" or "failure"

argVars == <<exInput, exArgs, exLog, exStdin>>

exVars == <<argVars, exVariant, exPc, procState, exitCode, emitted, pipe, pipeClosed,
            drainPc, drainBuf, drainLine, drainLoad, hasError, errorMessages,
            outputSummary, verdict>>


VARIABLES
  cmd,            \* the operation invoked on the Manager
  tableName,      \* its table argument
  dryRun,         \* m.dryRun
  config,         \* m.config.Common, the fields the operations read
  trace,          \* calls made to the database client and the tools
  notes,          \* calls made to the notifier
  result,         \* what the operation returned: "none", "ok", "error"
  swPc,           \* position of SwapTable
  renameRes,      \* answer of the RENAME statement
  monPc,          \* position of the monitor goroutine
  cancelled,      \* cancel() of the monitor's context was called
  ctxPairs,       \* context/cancel pairs created
  timerFiredAt,   \* position of SwapTable when timer.C fired
  queries,        \* m.config.Queries
  runPc,          \* position of ExecuteAllTasks
  parsed,         \* the []QueryInfo of parseQueries
  groups,         \* the map of groupQueriesByTable
  pending,        \* keys of the map the range loop has not yet visited
  cur,            \* the table group being executed, "" between groups
  otherIdx,       \* next OtherQueries entry of the current group
  routed,         \* per table, the row count executeTableGroup routed on
  ntIdx,          \* next index of the loop over table-less queries
  clPc,           \* position of a cleanup or purge operation
  rcPc,           \* position of GetTableRowCount
  rcTable,        \* its table argument
  rcActual,       \* the rows the table holds
  rcThreshold,    \* common.pt_osc_threshold of the caller
  rcQueries,      \* the queries it sent, with their answers
  rcOut,          \* what it returned
  rcRoute,        \* the branch executeTableGroup took on that
  sinkDown,       \* the calls of the notifier return an error
  exRound,        \* which invocation of the executor instance this is
  late            \* the drain loops the previous invocation left running

mgrVars == <<cmd, tableName, dryRun, config, trace, notes, result>>
swapVars == <<swPc, renameRes, monPc, cancelled, ctxPairs, timerFiredAt>>

runVars == <<queries, runPc, parsed, groups, pending, cur, otherIdx, routed,
             ntIdx>>

cleanVars == <<clPc>>

countVars == <<rcPc, rcTable, rcActual, rcThreshold, rcQueries, rcOut, rcRoute>>

seqVars == <<exRound, late>>

vars ==
  <<exVars, mgrVars, swapVars, runVars, cleanVars, countVars, sinkDown,
    seqVars>>

SummaryEntry(s, line) ==
  IF s = "stderr" THEN <<"[STDERR]", line>> ELSE <<"[STDOUT]", line>>

\* BuildArgsWithPassword of the entry point
BuildArgsOf(variant, input) ==
  IF variant = "ExecutePurge"
  THEN PtArchiverBuildArgs(input.table, input.ptArchiver, input.dsn,
                           input.forceDryRun)
  ELSE PtOscBuildArgs(input.table, input.alter, input.ptOsc, input.dsn,
                      input.forceDryRun)

\* reset of the run state, BuildArgsWithPassword (whose failure is
\* returned), the logged command line, cmd.Stdin, cmd.Start and the two
\* `go` statements
ExecStart ==
  /\ exPc = "start"
  /\ hasError' = FALSE
  /\ errorMessages' = <<>>
  /\ outputSummary' = <<>>
  /\ LET b == BuildArgsOf(exVariant, exInput) IN
       IF b.err
       THEN /\ exPc' = "done"
            /\ verdict' = "failure"
            /\ UNCHANGED <<exArgs, exLog, exStdin, procState, drainPc>>
       ELSE /\ exPc' = "wait"
            /\ exArgs' = b.args
            /\ exLog' = MaskedArgs(exVariant, b.args)
            /\ exStdin' = StdinOf(exVariant, b.password)
            /\ procState' = "running"
            /\ drainPc' = [s \in Streams |-> "scan"]
            /\ UNCHANGED verdict
  /\ UNCHANGED <<exInput, drainBuf, mgrVars, swapVars, runVars, exVariant,
                 exitCode, emitted, pipe, pipeClosed, drainLine, drainLoad,
                 cleanVars, countVars, sinkDown, seqVars>>

\* StdoutPipe, StderrPipe or cmd.Start fails after the command line was
\* logged: the error is returned and no process runs
ExecStartFails ==
  /\ exPc = "start"
  /\ ~BuildArgsOf(exVariant, exInput).err
  /\ exPc' = "done"
  /\ hasError' = FALSE
  /\ errorMessages' = <<>>
  /\ outputSummary' = <<>>
  /\ exLog' = MaskedArgs(exVariant, BuildArgsOf(exVariant, exInput).args)
  /\ verdict' = "failure"
  /\ UNCHANGED <<exInput, exArgs, exStdin, drainBuf, mgrVars, swapVars,
                 runVars, exVariant, procState, exitCode, emitted, pipe,
                 pipeClosed, drainPc, drainLine, drainLoad, cleanVars,
                 countVars, sinkDown, seqVars>>

\* the child writes one line to one of its streams
ProcEmit(s, line) ==
  /\ procState = "running"
  /\ Len(emitted["stdout"]) + Len(emitted["stderr"]) < MaxLines
  /\ emitted' = [emitted EXCEPT ![s] = Append(@, line)]
  /\ pipe' = [pipe EXCEPT ![s] = Append(@, line)]
  /\ UNCHANGED <<argVars, drainBuf, mgrVars, swapVars, runVars, exVariant,
                 exPc, procState, exitCode, pipeClosed, drainPc, drainLine,
                 drainLoad, hasError, errorMessages, outputSummary, verdict,
                 cleanVars, countVars, sinkDown, seqVars>>

\* the child exits with some status; its write ends close
ProcExit(code) ==
  /\ procState = "running"
  /\ procState' = "exited"
  /\ exitCode' = code
  /\ UNCHANGED <<argVars, drainBuf, mgrVars, swapVars, runVars, exVariant,
                 exPc, emitted, pipe, pipeClosed, drainPc, drainLine,
                 drainLoad, hasError, errorMessages, outputSummary, verdict,
                 cleanVars, countVars, sinkDown, seqVars>>

\* scanner.Scan(): the next line of the scanner's buffer; with the buffer
\* empty a read takes what the pipe holds; the loop ends at EOF or on a
\* read from the pipe cmd.Wait closed
DrainScan(s) ==
  /\ drainPc[s] = "scan"
  /\ LET avail == IF drainBuf[s] # <<>> THEN drainBuf[s]
                  ELSE IF pipeClosed THEN <<>> ELSE pipe[s]
     IN IF avail # <<>>
        THEN /\ drainLine' = [drainLine EXCEPT ![s] = Head(avail)]
             /\ drainBuf' = [drainBuf EXCEPT ![s] = Tail(avail)]
             /\ pipe' = IF drainBuf[s] # <<>> THEN pipe
                        ELSE [pipe EXCEPT ![s] = <<>>]
             /\ drainPc' = [drainPc EXCEPT ![s] =
                  CASE exVariant # "ExecuteAlterWithDryRunResult"
                         -> "append"
                    [] exInput.forceDryRun \/ exInput.ptOsc.DryRun
                         -> "load"
                    [] OTHER -> "classify"]
        ELSE /\ pipeClosed \/ procState = "exited"
             /\ drainPc' = [drainPc EXCEPT ![s] = "done"]
             /\ UNCHANGED <<drainLine, drainBuf, pipe>>
  /\ UNCHANGED <<argVars, mgrVars, swapVars, runVars, exVariant, exPc,
                 procState, exitCode, emitted, pipeClosed, drainLoad, hasError,
                 errorMessages, outputSummary, verdict, cleanVars, countVars,
                 sinkDown, seqVars>>

\* logOutputWithSummary: the summary append under e.mutex
DrainAppend(s) ==
  /\ drainPc[s] = "append"
  /\ outputSummary' = Append(outputSummary, SummaryEntry(s, drainLine[s]))
  /\ drainPc' = [drainPc EXCEPT ![s] = "classify"]
  /\ UNCHANGED <<argVars, drainBuf, mgrVars, swapVars, runVars, exVariant,
                 exPc, procState, exitCode, emitted, pipe, pipeClosed,
                 drainLine, drainLoad, hasError, errorMessages, verdict,
                 cleanVars, countVars, sinkDown, seqVars>>

\* logOutputWithDryRunAnalysis: result.Summary += ... without the mutex,
\* the read of the old value
DrainLoad(s) ==
  /\ drainPc[s] = "load"
  /\ drainLoad' = [drainLoad EXCEPT ![s] = outputSummary]
  /\ drainPc' = [drainPc EXCEPT ![s] = "store"]
  /\ UNCHANGED <<argVars, drainBuf, mgrVars, swapVars, runVars, exVariant,
                 exPc, procState, exitCode, emitted, pipe, pipeClosed,
                 drainLine, hasError, errorMessages, outputSummary, verdict,
                 cleanVars, countVars, sinkDown, seqVars>>

\* ... and the write of the new value
DrainStore(s) ==
  /\ drainPc[s] = "store"
  /\ outputSummary' = Append(drainLoad[s], SummaryEntry(s, drainLine[s]))
  /\ drainPc' = [drainPc EXCEPT ![s] = "classify"]
  /\ UNCHANGED <<argVars, drainBuf, mgrVars, swapVars, runVars, exVariant,
                 exPc, procState, exitCode, emitted, pipe, pipeClosed,
                 drainLine, drainLoad, hasError, errorMessages, verdict,
                 cleanVars, countVars, sinkDown, seqVars>>

\* the error-pattern test of the line and, on a match, the update under
\* e.mutex
DrainClassify(s) ==
  /\ drainPc[s] = "classify"
  /\ IF containsErrorPattern(exVariant, drainLine[s])
     THEN /\ hasError' = TRUE
          /\ errorMessages' = Append(errorMessages, drainLine[s])
     ELSE UNCHANGED <<hasError, errorMessages>>
  /\ drainPc' = [drainPc EXCEPT ![s] = "scan"]
  /\ UNCHANGED <<argVars, drainBuf, mgrVars, swapVars, runVars, exVariant,
                 exPc, procState, exitCode, emitted, pipe, pipeClosed,
                 drainLine, drainLoad, outputSummary, verdict, cleanVars,
                 countVars, sinkDown, seqVars>>

\* cmd.Wait(): returns once the child has exited and closes the read ends
\* of the StdoutPipe and StderrPipe
ExecWait ==
  /\ exPc = "wait"
  /\ procState = "exited"
  /\ pipeClosed' = TRUE
  /\ exPc' = "verdict"
  /\ UNCHANGED <<argVars, drainBuf, mgrVars, swapVars, runVars, exVariant,
                 procState, exitCode, emitted, pipe, drainPc, drainLine,
                 drainLoad, hasError, errorMessages, outputSummary, verdict,
                 cleanVars, countVars, sinkDown, seqVars>>

\* if cmdErr != nil || e.hasError, under e.mutex
ExecVerdict ==
  /\ exPc = "verdict"
  /\ verdict' = IF exitCode # 0 \/ hasError THEN "failure" ELSE "success"
  /\ exPc' = "done"
  /\ UNCHANGED <<argVars, drainBuf, mgrVars, swapVars, runVars, exVariant,
                 procState, exitCode, emitted, pipe, pipeClosed, drainPc,
                 drainLine, drainLoad, hasError, errorMessages, outputSummary,
                 cleanVars, countVars, sinkDown, seqVars>>

(***************************************************************************)
(* A second invocation on the same executor instance.  The fields hasError, *)
(* errorMessages and outputSummary belong to the instance; the goroutines  *)
(* of the first invocation, which nothing waits for, still hold lines of   *)
(* their scanners' buffers and write to the same fields.                   *)
(***************************************************************************)
NoLoop == [pc |-> "none", line |-> <<>>, buf |-> <<>>, before |-> 0]

SeqIdle ==
  /\ exRound = 1
  /\ late = [s \in Streams |-> NoLoop]

\* the caller invokes the executor again, with the same arguments, after
\* it returned: the reset of the fields, a new command with new pipes and
\* new drain loops; the loops of the returned invocation go on.  `emitted`
\* goes on as the history of both children, `before` is how much of it the
\* first child wrote
ExecAgain ==
  /\ exPc = "done"
  /\ exRound = 1
  /\ ~BuildArgsOf(exVariant, exInput).err
  /\ exRound' = 2
  /\ late' = [s \in Streams |->
               [pc |-> drainPc[s], line |-> drainLine[s], buf |-> drainBuf[s],
                before |-> Len(emitted[s])]]
  /\ hasError' = FALSE
  /\ errorMessages' = <<>>
  /\ outputSummary' = <<>>
  /\ exPc' = "wait"
  /\ procState' = "running"
  /\ exitCode' = 0
  /\ pipe' = [s \in Streams |-> <<>>]
  /\ pipeClosed' = FALSE
  /\ drainPc' = [s \in Streams |-> "scan"]
  /\ drainBuf' = [s \in Streams |-> <<>>]
  /\ drainLine' = [s \in Streams |-> <<>>]
  /\ drainLoad' = [s \in Streams |-> <<>>]
  /\ verdict' = "none"
  /\ UNCHANGED <<argVars, exVariant, emitted, mgrVars, swapVars, runVars,
                 cleanVars, countVars, sinkDown>>

\* scanner.Scan() of a loop of the returned invocation: its pipe is closed,
\* only the lines already in the scanner's buffer are left
LateScan(s) ==
  /\ late[s].pc = "scan"
  /\ late' = [late EXCEPT ![s] =
       IF late[s].buf = <<>> THEN [@ EXCEPT !.pc = "done"]
       ELSE [@ EXCEPT !.pc = IF exVariant = "ExecuteAlterWithDryRunResult"
                             THEN "classify" ELSE "append",
                      !.line = Head(late[s].buf),
                      !.buf = Tail(late[s].buf)]]
  /\ UNCHANGED <<exVars, mgrVars, swapVars, runVars, cleanVars, countVars,
                 sinkDown, exRound>>

\* the summary append of such a loop: logOutputWithSummary writes the field
\* of the instance, logOutputWithDryRunAnalysis the DryRunResult of its own
\* invocation
LateAppend(s) ==
  /\ late[s].pc \in {"append", "load", "store"}
  /\ outputSummary' =
       IF late[s].pc = "append"
       THEN Append(outputSummary, SummaryEntry(s, late[s].line))
       ELSE outputSummary
  /\ late' = [late EXCEPT ![s].pc = "classify"]
  /\ UNCHANGED <<argVars, exVariant, exPc, procState, exitCode, emitted, pipe,
                 pipeClosed, drainPc, drainBuf, drainLine, drainLoad, hasError,
                 errorMessages, verdict, mgrVars, swapVars, runVars, cleanVars,
                 countVars, sinkDown, exRound>>

\* the error-pattern test of such a loop
LateClassify(s) ==
  /\ late[s].pc = "classify"
  /\ IF containsErrorPattern(exVariant, late[s].line)
     THEN /\ hasError' = TRUE
          /\ errorMessages' = Append(errorMessages, late[s].line)
     ELSE UNCHANGED <<hasError, errorMessages>>
  /\ late' = [late EXCEPT ![s].pc = "scan"]
  /\ UNCHANGED <<argVars, exVariant, exPc, procState, exitCode, emitted, pipe,
                 pipeClosed, drainPc, drainBuf, drainLine, drainLoad,
                 outputSummary, verdict, mgrVars, swapVars, runVars, cleanVars,
                 countVars, sinkDown, exRound>>

NextExec ==
  \/ ExecStart
  \/ ExecStartFails
  \/ \E s \in Streams, line \in ToolLines : ProcEmit(s, line)
  \/ \E code \in {0, 1} : ProcExit(code)
  \/ \E s \in Streams : DrainScan(s)
  \/ \E s \in Streams : DrainAppend(s)
  \/ \E s \in Streams : DrainLoad(s)
  \/ \E s \in Streams : DrainStore(s)
  \/ \E s \in Streams : DrainClassify(s)
  \/ ExecWait
  \/ ExecVerdict

(***************************************************************************)
(* task.Manager: the collaborators (database.Client, ptosc.Executor,       *)
(* ptarchiver.Executor, slack.Notifier) are interfaces; every call is      *)
(* recorded in `trace` (database and tools) or `notes` (notifier) with the *)
(* answer the collaborator gave, which is chosen freely.                   *)
(***************************************************************************)
Tables == {"users", "orders"}

\* fmt.Sprintf of a table name: <<prefix, table, suffix>>
Tbl(t) == <<"", t, "">>
\* the working table named like the retired one
NewTblSuffixOnly(t) == <<"", t, "_new">>

NewTbl(t) == <<"_", t, "_new">>
OldTbl(t) == <<"", t, "_old">>

\* values of common.pt_osc_threshold
PtOscThresholds == {1, 2}

\* largest row count GetTableRowCount answers
MaxRows == 3

\* exact readings COUNT(*) may give in the swap parity check
SwapCounts == {0, 1, 19, 20, 940, 950, 1000}

\* threshold := 5.0 in checkRowCountDifference
ParityThreshold == 5

\* a call: the method, the statement verb, the tables named, the ALTER
\* fragments or statement text, the dry-run flag, the answer, a count and,
\* for a tool, the argument list its process is started with
EvX(op, verb, names, parts, dry, res, n) ==
  [op |-> op, verb |-> verb, names |-> names, parts |-> parts, dry |-> dry,
   res |-> res, n |-> n, args |-> <<>>]

ToolEv(op, verb, names, parts, dry, res, args) ==
  [EvX(op, verb, names, parts, dry, res, 0) EXCEPT !.args = args]

Ev(op, verb, names, res, n) == EvX(op, verb, names, <<>>, FALSE, res, n)

\* a call of the notifier and whether it returned an error
Note(op, task, t) ==
  [op |-> op, task |-> task, tbl |-> t, failed |-> sinkDown]

TaskName(base) == IF dryRun THEN <<base, "(DRY RUN)">> ELSE <<base>>

\* a connection string with a password
DsnPassword ==
  <<"app", ":", "s3cret", "@tcp", "(", "db1", ":", "3306", ")", "/", "shop">>

\* other connection strings: without a password, with an empty one, with
\* parameters, and ones ParseDSN rejects
DsnNoPassword ==
  <<"app", "@tcp", "(", "db1", ":", "3306", ")", "/", "shop">>
DsnEmptyPassword ==
  <<"app", ":", "@tcp", "(", "db1", ":", "3306", ")", "/", "shop">>
DsnParams ==
  <<"app", ":", "s3cret", "@tcp", "(", "db1", ":", "3306", ")", "/", "shop",
    "?", "parseTime=true">>
DsnColonInPassword ==
  <<"app", ":", "s3", ":", "cret", "@tcp", "(", "db1", ":", "3306", ")", "/",
    "shop">>
DsnUnixSocket ==
  <<"app", ":", "s3cret", "@unix", "(", "sock", ")", "/", "shop">>
DsnPortName ==
  <<"app", ":", "s3cret", "@tcp", "(", "db1", ":", "mysql", ")", "/", "shop">>

DsnNoDatabase ==
  <<"app", ":", "s3cret", "@tcp", "(", "db1", ":", "3306", ")", "/">>
DsnNoAt ==
  <<"app", ":", "s3cret", "tcp", "(", "db1", ":", "3306", ")", "/", "shop">>

Dsns == {DsnPassword, DsnNoPassword, DsnEmptyPassword, DsnParams,
         DsnColonInPassword, DsnUnixSocket, DsnPortName, DsnNoDatabase,
         DsnNoAt}

\* the arguments of an invocation the other inputs are varied from
BaseInput ==
  [table |-> <<"users">>,
   alter |-> <<"ADD", "x">>,
   dsn |-> DsnPassword,
   forceDryRun |-> FALSE,
   ptOsc |-> CHOOSE c \in PtOscConfigs :
               c.RecursionMethod = <<>> /\ ~c.NoSwapTables /\ ~c.DryRun,
   ptArchiver |-> CHOOSE c \in PtArchiverConfigs :
                    c.Enabled /\ c.CommitEach]

\* m.config: the settings an operation does not read keep one value
Configs ==
  [ connectionCheck : BOOLEAN,
    disableAnalyzeTable : BOOLEAN,
    thresholdSeconds : {0, 1},
    ptOscThreshold : PtOscThresholds,
    dsn : {DsnPassword},
    ptOsc : {BaseInput.ptOsc},
    ptArchiver : {BaseInput.ptArchiver},
    bufferPoolSizeThresholdMB : {0} ]

ExecIdle ==
  /\ exInput = BaseInput
  /\ exArgs = <<>>
  /\ exLog = <<>>
  /\ exStdin = <<>>
  /\ exVariant = "ExecuteAlter"
  /\ exPc = "idle"
  /\ procState = "none"
  /\ exitCode = 0
  /\ emitted = [s \in Streams |-> <<>>]
  /\ pipe = [s \in Streams |-> <<>>]
  /\ pipeClosed = FALSE
  /\ drainPc = [s \in Streams |-> "none"]
  /\ drainBuf = [s \in Streams |-> <<>>]
  /\ drainLine = [s \in Streams |-> <<>>]
  /\ drainLoad = [s \in Streams |-> <<>>]
  /\ hasError = FALSE
  /\ errorMessages = <<>>
  /\ outputSummary = <<>>
  /\ verdict = "none"

SwapIdle ==
  /\ swPc = "idle"
  /\ renameRes = "none"
  /\ monPc = "none"
  /\ cancelled = FALSE
  /\ ctxPairs = 0
  /\ timerFiredAt = "never"

CleanIdle == clPc = "idle"

CountIdle ==
  /\ rcPc = "idle"
  /\ rcTable = Tbl("users")
  /\ rcActual = 0
  /\ rcThreshold = 1
  /\ rcQueries = <<>>
  /\ rcOut = [count |-> 0, err |-> FALSE]
  /\ rcRoute = "none"

RunIdle ==
  /\ queries = <<>>
  /\ runPc = "idle"
  /\ parsed = <<>>
  /\ groups = <<>>
  /\ pending = {}
  /\ cur = ""
  /\ otherIdx = 1
  /\ routed = <<>>
  /\ ntIdx = 1

MgrIdle ==
  /\ cmd = "none"
  /\ tableName = "users"
  /\ dryRun = FALSE
  /\ config = [connectionCheck |-> FALSE, disableAnalyzeTable |-> FALSE,
               thresholdSeconds |-> 0, ptOscThreshold |-> 1,
               dsn |-> DsnPassword, ptOsc |-> BaseInput.ptOsc,
               ptArchiver |-> BaseInput.ptArchiver,
               bufferPoolSizeThresholdMB |-> 0]
  /\ trace = <<>>
  /\ notes = <<>>
  /\ result = "none"
  /\ SwapIdle
  /\ RunIdle
  /\ CleanIdle

\* answers of HasOtherActiveConnections
ConnAnswers == {"none", "others", "err"}

\* a check that only fails when the connection query fails
checkOtherActiveConnectionsLax(enabled, task, t, ans) ==
  IF ~enabled
  THEN [tr |-> <<>>, nt |-> <<>>, err |-> FALSE]
  ELSE [tr |-> <<Ev("HasOtherActiveConnections", "", <<>>, ans, 0)>>,
        nt |-> <<>>,
        err |-> ans = "err"]

\* checkOtherActiveConnections: the calls it makes and whether it fails
checkOtherActiveConnections(enabled, task, t, ans) ==
  IF ~enabled
  THEN [tr |-> <<>>, nt |-> <<>>, err |-> FALSE]
  ELSE [tr |-> <<Ev("HasOtherActiveConnections", "", <<>>, ans, 0)>>,
        nt |-> IF ans = "others"
               THEN <<Note("NotifyConnectionCheckFailure", task, t)>>
               ELSE <<>>,
        err |-> ans # "none"]

\* the comparison written as diffPercent >= threshold
RowCountDiffExceedsInclusive(o, n) ==
  IF o >= n
  THEN IF o > 0 THEN (o - n) * 100 >= ParityThreshold * o ELSE FALSE
  ELSE (n - o) * 100 >= ParityThreshold * n

\* diffPercent > threshold, for exact readings o and n
RowCountDiffExceeds(o, n) ==
  IF o >= n
  THEN IF o > 0 THEN (o - n) * 100 > ParityThreshold * o ELSE FALSE
  ELSE (n - o) * 100 > ParityThreshold * n

\* SwapTable up to the first existence check
SwapConnCheck(ans) ==
  /\ swPc = "start"
  /\ LET c == checkOtherActiveConnections(config.connectionCheck,
                                          TaskName("swap"), tableName, ans) IN
       /\ trace' = trace \o c.tr
       /\ notes' = notes \o c.nt
       /\ swPc' = IF c.err THEN "returned" ELSE "existsOrig"
       /\ result' = IF c.err THEN "error" ELSE result
  /\ UNCHANGED <<cmd, tableName, dryRun, config, renameRes, monPc, cancelled,
                 ctxPairs, timerFiredAt, exVars, runVars, cleanVars, countVars,
                 sinkDown, seqVars>>

\* m.db.TableExists(tableName)
SwapExistsOrig(ans) ==
  /\ swPc = "existsOrig"
  /\ trace' = Append(trace, Ev("TableExists", "", <<Tbl(tableName)>>, ans, 0))
  /\ swPc' = IF ans = "true" THEN "existsNew" ELSE "returned"
  /\ result' = IF ans = "true" THEN result ELSE "error"
  /\ UNCHANGED <<cmd, tableName, dryRun, config, notes, renameRes, monPc,
                 cancelled, ctxPairs, timerFiredAt, exVars, runVars, cleanVars,
                 countVars, sinkDown, seqVars>>

\* an existence check that only stops on a failed query
SwapExistsNewLax(ans) ==
  /\ swPc = "existsNew"
  /\ trace' = Append(trace,
                     Ev("TableExists", "", <<NewTbl(tableName)>>, ans, 0))
  /\ swPc' = IF ans # "err" THEN "parity" ELSE "returned"
  /\ result' = IF ans # "err" THEN result ELSE "error"
  /\ UNCHANGED <<cmd, tableName, dryRun, config, notes, renameRes, monPc,
                 cancelled, ctxPairs, timerFiredAt, exVars, runVars, cleanVars,
                 countVars, sinkDown, seqVars>>

\* m.db.TableExists("_<table>_new")
SwapExistsNew(ans) ==
  /\ swPc = "existsNew"
  /\ trace' = Append(trace,
                     Ev("TableExists", "", <<NewTbl(tableName)>>, ans, 0))
  /\ swPc' = IF ans = "true" THEN "parity" ELSE "returned"
  /\ result' = IF ans = "true" THEN result ELSE "error"
  /\ UNCHANGED <<cmd, tableName, dryRun, config, notes, renameRes, monPc,
                 cancelled, ctxPairs, timerFiredAt, exVars, runVars, cleanVars,
                 countVars, sinkDown, seqVars>>

\* checkRowCountDifference, a reading failed
SwapParityError(firstFails) ==
  /\ swPc = "parity"
  /\ \E o \in SwapCounts :
       trace' = trace \o
         IF firstFails
         THEN <<Ev("GetTableRowCountForSwap", "COUNT", <<Tbl(tableName)>>,
                   "err", 0)>>
         ELSE <<Ev("GetTableRowCountForSwap", "COUNT", <<Tbl(tableName)>>,
                   "ok", o),
                Ev("GetTableRowCountForSwap", "COUNT", <<NewTbl(tableName)>>,
                   "err", 0)>>
  /\ swPc' = "returned"
  /\ result' = "error"
  /\ UNCHANGED <<cmd, tableName, dryRun, config, notes, renameRes, monPc,
                 cancelled, ctxPairs, timerFiredAt, exVars, runVars, cleanVars,
                 countVars, sinkDown, seqVars>>

\* checkRowCountDifference, both readings obtained
SwapParity(o, n) ==
  /\ swPc = "parity"
  /\ trace' = trace \o
       <<Ev("GetTableRowCountForSwap", "COUNT", <<Tbl(tableName)>>, "ok", o),
         Ev("GetTableRowCountForSwap", "COUNT", <<NewTbl(tableName)>>, "ok", n)>>
  /\ IF RowCountDiffExceeds(o, n)
     THEN /\ notes' = Append(notes, Note("NotifyWarning",
                               TaskName("swap-row-count-check"), tableName))
          /\ swPc' = "returned"
          /\ result' = "error"
     ELSE /\ swPc' = "analyze"
          /\ UNCHANGED <<notes, result>>
  /\ UNCHANGED <<cmd, tableName, dryRun, config, renameRes, monPc, cancelled,
                 ctxPairs, timerFiredAt, exVars, runVars, cleanVars, countVars,
                 sinkDown, seqVars>>

\* ANALYZE TABLE on the replacement table, then the start notification
SwapAnalyze(ans) ==
  /\ swPc = "analyze"
  /\ trace' = IF ~config.disableAnalyzeTable /\ ~dryRun
              THEN Append(trace, Ev("AnalyzeTable", "ANALYZE",
                                    <<NewTbl(tableName)>>, ans, 0))
              ELSE trace
  /\ notes' = Append(notes,
                     Note("NotifyStartWithQuery", TaskName("swap"), tableName))
  /\ swPc' = "session"
  /\ UNCHANGED <<cmd, tableName, dryRun, config, result, renameRes, monPc,
                 cancelled, ctxPairs, timerFiredAt, exVars, runVars, cleanVars,
                 countVars, sinkDown, seqVars>>

\* m.db.SetSessionConfig, and the end of a dry run
SwapSetSession(ans) ==
  /\ swPc = "session"
  /\ trace' = Append(trace, Ev("SetSessionConfig", "SET", <<>>, ans, 0))
  /\ IF ans = "err"
     THEN /\ notes' = Append(notes, Note("NotifyFailureWithQuery",
                                         TaskName("swap"), tableName))
          /\ swPc' = "returned"
          /\ result' = "error"
     ELSE IF dryRun
     THEN /\ notes' = Append(notes, Note("NotifySuccessWithQuery",
                                         TaskName("swap"), tableName))
          /\ swPc' = "returned"
          /\ result' = "ok"
     ELSE /\ swPc' = "monitor"
          /\ UNCHANGED <<notes, result>>
  /\ UNCHANGED <<cmd, tableName, dryRun, config, renameRes, monPc, cancelled,
                 ctxPairs, timerFiredAt, exVars, runVars, cleanVars, countVars,
                 sinkDown, seqVars>>

\* context.WithCancel, defer cancel(), the `go` statement, and the call of
\* m.db.ExecuteAlter(swapSQL), which blocks
SwapIssueRename ==
  /\ swPc = "monitor"
  /\ IF config.thresholdSeconds > 0
     THEN /\ ctxPairs' = ctxPairs + 1
          /\ monPc' = "spawned"
     ELSE UNCHANGED <<ctxPairs, monPc>>
  /\ trace' = Append(trace, Ev("ExecuteAlter", "RENAME",
                 <<Tbl(tableName), OldTbl(tableName),
                   NewTbl(tableName), Tbl(tableName)>>, "issued", 0))
  /\ swPc' = "renaming"
  /\ UNCHANGED <<cmd, tableName, dryRun, config, notes, result, renameRes,
                 cancelled, timerFiredAt, exVars, runVars, cleanVars,
                 countVars, sinkDown, seqVars>>

\* the RENAME statement returns
SwapRenameReturns(ans) ==
  /\ swPc = "renaming"
  /\ renameRes' = ans
  /\ swPc' = "outcome"
  /\ UNCHANGED <<cmd, tableName, dryRun, config, trace, notes, result, monPc,
                 cancelled, ctxPairs, timerFiredAt, exVars, runVars, cleanVars,
                 countVars, sinkDown, seqVars>>

\* the failure or success notification that follows the RENAME
SwapNotifyOutcome ==
  /\ swPc = "outcome"
  /\ notes' = Append(notes,
       Note(IF renameRes = "err" THEN "NotifyFailureWithQuery"
            ELSE "NotifySuccessWithQuery", TaskName("swap"), tableName))
  /\ swPc' = "exit"
  /\ UNCHANGED <<cmd, tableName, dryRun, config, trace, result, renameRes,
                 monPc, cancelled, ctxPairs, timerFiredAt, exVars, runVars,
                 cleanVars, countVars, sinkDown, seqVars>>

\* return: the deferred cancel() runs; a monitor parked in select takes
\* the ctx.Done() case
SwapReturn ==
  /\ swPc = "exit"
  /\ result' = IF renameRes = "err" THEN "error" ELSE "ok"
  /\ cancelled' = (ctxPairs > 0)
  /\ monPc' = IF monPc = "parked" THEN "cancelled" ELSE monPc
  /\ swPc' = "returned"
  /\ UNCHANGED <<cmd, tableName, dryRun, config, trace, notes, renameRes,
                 ctxPairs, timerFiredAt, exVars, runVars, cleanVars, countVars,
                 sinkDown, seqVars>>

\* the monitor goroutine runs: time.NewTimer and the select, in which it
\* parks unless the context is already cancelled
MonitorStart ==
  /\ monPc = "spawned"
  /\ monPc' = IF cancelled THEN "cancelled" ELSE "parked"
  /\ UNCHANGED <<mgrVars, swPc, renameRes, cancelled, ctxPairs, timerFiredAt,
                 exVars, runVars, cleanVars, countVars, sinkDown, seqVars>>

\* the timer fires while the monitor is parked in select: the send on
\* timer.C wakes the goroutine in the case <-timer.C branch
MonitorTimerFires ==
  /\ monPc = "parked"
  /\ monPc' = "fired"
  /\ timerFiredAt' = swPc
  /\ UNCHANGED <<mgrVars, swPc, renameRes, cancelled, ctxPairs, exVars,
                 runVars, cleanVars, countVars, sinkDown, seqVars>>

\* a monitor built on a ticker: it warns and waits for the next tick
MonitorWarnRepeats ==
  /\ monPc = "fired"
  /\ notes' = Append(notes, Note("NotifyWarning", TaskName("swap"), tableName))
  /\ monPc' = "parked"
  /\ UNCHANGED <<cmd, tableName, dryRun, config, trace, result, swPc,
                 renameRes, cancelled, ctxPairs, timerFiredAt, exVars, runVars,
                 cleanVars, countVars, sinkDown, seqVars>>

\* m.slack.NotifyWarning of the case <-timer.C branch
MonitorWarn ==
  /\ monPc = "fired"
  /\ notes' = Append(notes, Note("NotifyWarning", TaskName("swap"), tableName))
  /\ monPc' = "done"
  /\ UNCHANGED <<cmd, tableName, dryRun, config, trace, result, swPc,
                 renameRes, cancelled, ctxPairs, timerFiredAt, exVars, runVars,
                 cleanVars, countVars, sinkDown, seqVars>>

\* case <-ctx.Done(): return
MonitorExit ==
  /\ monPc = "cancelled"
  /\ monPc' = "done"
  /\ UNCHANGED <<mgrVars, swPc, renameRes, cancelled, ctxPairs, timerFiredAt,
                 exVars, runVars, cleanVars, countVars, sinkDown, seqVars>>

NextSwap ==
  \/ \E ans \in ConnAnswers : SwapConnCheck(ans)
  \/ \E ans \in {"true", "false", "err"} : SwapExistsOrig(ans)
  \/ \E ans \in {"true", "false", "err"} : SwapExistsNew(ans)
  \/ \E firstFails \in BOOLEAN : SwapParityError(firstFails)
  \/ \E o \in SwapCounts, n \in SwapCounts : SwapParity(o, n)
  \/ \E ans \in {"ok", "err"} : SwapAnalyze(ans)
  \/ \E ans \in {"ok", "err"} : SwapSetSession(ans)
  \/ SwapIssueRename
  \/ \E ans \in {"ok", "err"} : SwapRenameReturns(ans)
  \/ SwapNotifyOutcome
  \/ SwapReturn
  \/ MonitorStart
  \/ MonitorTimerFires
  \/ MonitorWarn
  \/ MonitorExit

(***************************************************************************)
(* ExecuteAllTasks: statements are word tuples.                            *)
(***************************************************************************)
UpperWord(w) ==
  CASE w = "alter" -> "ALTER"
    [] w = "table" -> "TABLE"
    [] w = "create" -> "CREATE"
    [] w = "drop" -> "DROP"
    [] w = "if" -> "IF"
    [] w = "not" -> "NOT"
    [] w = "exists" -> "EXISTS"
    [] w = "insert" -> "INSERT"
    [] w = "droptable" -> "DROPTABLE"
    [] OTHER -> w

\* strings.Trim of the backticks around a name (a backtick is written ~)
TrimBackticks(w) ==
  CASE w = "~users~" -> "users"
    [] w = "~orders~" -> "orders"
    [] OTHER -> w

\* the words of the modelled statements that begin with the letters of
\* another word: <<word, prefix>>
ProperPrefixes == {<<"DROPTABLE", "DROP">>}

\* strings.HasPrefix(query, verb) on the upper-cased, trimmed text: true
\* when the first word is the verb or begins with its letters
StartsWith(q, verb) ==
  /\ q # <<>>
  /\ \/ UpperWord(q[1]) = verb
     \/ <<UpperWord(q[1]), verb>> \in ProperPrefixes

\* getQueryType: "" stands for the `unsupported type query` error
getQueryType(query) ==
  LET q == TrimSpace(query) IN
    IF StartsWith(q, "CREATE") THEN "CREATE"
    ELSE IF StartsWith(q, "ALTER") THEN "ALTER"
    ELSE IF StartsWith(q, "DROP") THEN "DROP"
    ELSE ""

\* leftmost position where `<verb> TABLE <name>` matches, 0 if none
FirstMatch(q, verb) ==
  LET S == {i \in 1..(Len(q) - 2) :
              UpperWord(q[i]) = verb /\ UpperWord(q[i + 1]) = "TABLE"} IN
    IF S = {} THEN 0 ELSE CHOOSE i \in S : \A j \in S : i <= j

\* position of the captured name after an optional IF [NOT] EXISTS
NameIndex(q, i, opt) ==
  IF /\ Len(q) >= i + 2 + Len(opt)
     /\ [j \in 1..Len(opt) |-> UpperWord(q[i + 1 + j])] = opt
  THEN i + 2 + Len(opt)
  ELSE i + 2

extractTableName(query) ==
  LET q == TrimSpace(query)
      c == FirstMatch(q, "CREATE")
      a == FirstMatch(q, "ALTER")
      d == FirstMatch(q, "DROP")
  IN IF c > 0
     THEN TrimBackticks(q[NameIndex(q, c, <<"IF", "NOT", "EXISTS">>)])
     ELSE IF a > 0 THEN TrimBackticks(q[a + 2])
     ELSE IF d > 0 THEN TrimBackticks(q[NameIndex(q, d, <<"IF", "EXISTS">>)])
     ELSE ""

\* extractAlterStatement: the text after `ALTER TABLE <name> `, <<>> if none
extractAlterStatement(q) ==
  LET S == {i \in 1..(Len(q) - 3) :
              UpperWord(q[i]) = "ALTER" /\ UpperWord(q[i + 1]) = "TABLE"} IN
    IF S = {} THEN <<>>
    ELSE LET i == CHOOSE k \in S : \A j \in S : k <= j IN
           SubSeq(q, i + 3, Len(q))

QueryInfo(query) ==
  [Query |-> TrimSpace(query), QueryType |-> getQueryType(query),
   TableName |-> extractTableName(query)]

\* parseQueries: the first unsupported statement makes the whole batch fail
parseQueries(qs) ==
  IF \E i \in DOMAIN qs : getQueryType(qs[i]) = ""
  THEN [err |-> TRUE, infos |-> <<>>]
  ELSE [err |-> FALSE, infos |-> [i \in DOMAIN qs |-> QueryInfo(qs[i])]]

\* fragments collected by prepending instead of appending
RECURSIVE AlterPartsOfReversed(_, _)
AlterPartsOfReversed(infos, t) ==
  IF infos = <<>> THEN <<>>
  ELSE LET q == Head(infos)
           part == extractAlterStatement(q.Query)
       IN AlterPartsOfReversed(Tail(infos), t)
            \o (IF q.TableName = t /\ q.QueryType = "ALTER" /\ part # <<>>
                THEN <<part>> ELSE <<>>)

\* the AlterParts groupQueriesByTable collects for table t, in input order
RECURSIVE AlterPartsOf(_, _)
AlterPartsOf(infos, t) ==
  IF infos = <<>> THEN <<>>
  ELSE LET q == Head(infos)
           part == extractAlterStatement(q.Query)
       IN (IF q.TableName = t /\ q.QueryType = "ALTER" /\ part # <<>>
           THEN <<part>> ELSE <<>>) \o AlterPartsOf(Tail(infos), t)

\* statements collected by prepending instead of appending
RECURSIVE OtherQueriesOfReversed(_, _)
OtherQueriesOfReversed(infos, t) ==
  IF infos = <<>> THEN <<>>
  ELSE LET q == Head(infos) IN
         OtherQueriesOfReversed(Tail(infos), t)
           \o (IF q.TableName = t /\ q.QueryType # "ALTER" THEN <<q>>
               ELSE <<>>)

\* the OtherQueries groupQueriesByTable collects for table t, in input order
RECURSIVE OtherQueriesOf(_, _)
OtherQueriesOf(infos, t) ==
  IF infos = <<>> THEN <<>>
  ELSE LET q == Head(infos) IN
         (IF q.TableName = t /\ q.QueryType # "ALTER" THEN <<q>> ELSE <<>>)
           \o OtherQueriesOf(Tail(infos), t)

groupQueriesByTable(infos) ==
  LET names == {infos[i].TableName : i \in DOMAIN infos} \ {""} IN
    [t \in names |->
       [TableName |-> t,
        AlterParts |-> AlterPartsOf(infos, t),
        OtherQueries |-> OtherQueriesOf(infos, t)]]

\* what db.Exec answers inside MySQLClient.ExecuteAlter: 0 for success,
\* else the number of the *mysql.MySQLError (1061 duplicate key name,
\* 1064 syntax error)
ExecAnswers == {0, 1061, 1064}

\* an error value: the MySQL error number at the bottom of its chain and
\* whether fmt.Errorf("...%w") wraps it
NoError == [number |-> 0, wrapped |-> FALSE]

\* MySQLClient.ExecuteAlter: a driver error is returned wrapped
ClientExecuteAlter(n) ==
  IF n = 0 THEN NoError ELSE [number |-> n, wrapped |-> TRUE]

\* IsDuplicateError: the type assertion err.(*mysql.MySQLError) holds only
\* of an error that is itself the driver's error, not of one wrapping it
IsDuplicateError(err) ==
  /\ ~err.wrapped
  /\ err.number \in {1062, 1061, 1050}

\* how the Manager took the answer of a direct execution
Outcome(err) ==
  IF err = NoError THEN "ok"
  ELSE IF IsDuplicateError(err) THEN "dup" ELSE "err"

\* executeQuery: nothing in a dry run; a duplicate error is a warning
executeQuery(dry, info, task, ans) ==
  LET err == ClientExecuteAlter(ans) IN
  IF dry
  THEN [tr |-> <<>>, nt |-> <<>>, err |-> FALSE]
  ELSE [tr |-> <<EvX("ExecuteAlter", info.QueryType, <<Tbl(info.TableName)>>,
                     <<info.Query>>, FALSE, Outcome(err), ans)>>,
        nt |-> IF Outcome(err) = "dup"
               THEN <<Note("NotifyWarning", <<task>>, info.TableName)>>
               ELSE <<>>,
        err |-> Outcome(err) = "err"]

\* a statement that is given up when the notifier fails
NotifiedQueryNeedsSink(dry, info, base, ans) ==
  LET x == executeQuery(dry, info, base, ans) IN
    [tr |-> IF sinkDown THEN <<>> ELSE x.tr,
     nt |-> <<Note("NotifyStartWithQuery", TaskName(base), info.TableName)>>,
     err |-> sinkDown \/ x.err]

\* one statement between its start and its success or failure notification
NotifiedQuery(dry, info, base, ans) ==
  LET x == executeQuery(dry, info, base, ans) IN
    [tr |-> x.tr,
     nt |-> <<Note("NotifyStartWithQuery", TaskName(base), info.TableName)>>
            \o x.nt
            \o <<Note(IF x.err THEN "NotifyFailureWithQuery"
                      ELSE "NotifySuccessWithQuery",
                      TaskName(base), info.TableName)>>,
     err |-> x.err]

\* a loop that goes on to the next fragment after a failure
RECURSIVE AlterLoopContinues(_, _, _, _)
AlterLoopContinues(dry, t, parts, answers) ==
  IF parts = <<>> THEN [tr |-> <<>>, nt |-> <<>>, err |-> FALSE]
  ELSE LET info == [Query |-> <<"ALTER", "TABLE", t>> \o Head(parts),
                    QueryType |-> "ALTER", TableName |-> t]
           x == executeQuery(dry, info, "alter-table", Head(answers))
           rest == AlterLoopContinues(dry, t, Tail(parts), Tail(answers))
       IN [tr |-> x.tr \o rest.tr, nt |-> x.nt \o rest.nt,
           err |-> x.err \/ rest.err]

\* the loop of executeAlterPartsAsSmallQueries: one ALTER per fragment,
\* ended by the first failure
RECURSIVE AlterLoop(_, _, _, _)
AlterLoop(dry, t, parts, answers) ==
  IF parts = <<>> THEN [tr |-> <<>>, nt |-> <<>>, err |-> FALSE]
  ELSE LET info == [Query |-> <<"ALTER", "TABLE", t>> \o Head(parts),
                    QueryType |-> "ALTER", TableName |-> t]
           x == executeQuery(dry, info, "alter-table", Head(answers))
       IN IF x.err THEN x
          ELSE LET rest == AlterLoop(dry, t, Tail(parts), Tail(answers)) IN
                 [tr |-> x.tr \o rest.tr, nt |-> x.nt \o rest.nt,
                  err |-> rest.err]

\* a check that only fails when the existence query fails
checkNewTableExistsLax(task, t, ans) ==
  [tr |-> <<Ev("CheckNewTableExists", "", <<NewTbl(t)>>, ans, 0)>>,
   nt |-> <<>>,
   err |-> ans = "err"]

\* checkNewTableExists
checkNewTableExists(task, t, ans) ==
  [tr |-> <<Ev("CheckNewTableExists", "", <<NewTbl(t)>>, ans, 0)>>,
   nt |-> IF ans = "true"
          THEN <<Note("NotifyPtOscPreCheckFailure", task, t)>>
          ELSE <<>>,
   err |-> ans # "false"]

RunReturn(err) ==
  /\ runPc' = "returned"
  /\ result' = IF err THEN "error" ELSE "ok"
  /\ cur' = ""

\* parseQueries and groupQueriesByTable
RunParse ==
  /\ runPc = "parse"
  /\ LET p == parseQueries(queries) IN
       IF p.err
       THEN /\ RunReturn(TRUE)
            /\ UNCHANGED <<parsed, groups, pending, routed>>
       ELSE /\ parsed' = p.infos
            /\ groups' = groupQueriesByTable(p.infos)
            /\ pending' = DOMAIN groupQueriesByTable(p.infos)
            /\ routed' = [t \in DOMAIN groupQueriesByTable(p.infos) |-> -1]
            /\ runPc' = "tables"
            /\ UNCHANGED <<result, cur>>
  /\ UNCHANGED <<cmd, tableName, dryRun, config, trace, notes, queries,
                 otherIdx, ntIdx, swapVars, exVars, cleanVars, countVars,
                 sinkDown, seqVars>>

\* `for tableName, group := range tableGroups`: the next key, in the order
\* the map iteration yields
RunNextTable(t) ==
  /\ runPc = "tables"
  /\ cur = ""
  /\ t \in pending
  /\ cur' = t
  /\ pending' = pending \ {t}
  /\ otherIdx' = 1
  /\ runPc' = "other"
  /\ UNCHANGED <<mgrVars, queries, parsed, groups, routed, ntIdx, swapVars,
                 exVars, cleanVars, countVars, sinkDown, seqVars>>

\* one iteration of executeSmallQueries
RunOtherQuery(rcAns, ans) ==
  /\ runPc = "other"
  /\ otherIdx <= Len(groups[cur].OtherQueries)
  /\ LET info == groups[cur].OtherQueries[otherIdx]
         x == NotifiedQuery(dryRun, info, "small-query", ans)
     IN /\ trace' = trace
             \o <<Ev("GetTableRowCount", "", <<Tbl(info.TableName)>>, rcAns, 0)>>
             \o x.tr
        /\ notes' = notes \o x.nt
        /\ IF x.err
           THEN RunReturn(TRUE) /\ UNCHANGED otherIdx
           ELSE /\ otherIdx' = otherIdx + 1
                /\ UNCHANGED <<runPc, result, cur>>
  /\ UNCHANGED <<cmd, tableName, dryRun, config, queries, parsed, groups,
                 pending, routed, ntIdx, swapVars, exVars, cleanVars,
                 countVars, sinkDown, seqVars>>

\* executeTableGroup after executeSmallQueries: a group without ALTER
\* fragments is finished
RunGroupWithoutAlter ==
  /\ runPc = "other"
  /\ otherIdx > Len(groups[cur].OtherQueries)
  /\ groups[cur].AlterParts = <<>>
  /\ cur' = ""
  /\ runPc' = "tables"
  /\ UNCHANGED <<mgrVars, queries, parsed, groups, pending, otherIdx, routed,
                 ntIdx, swapVars, exVars, cleanVars, countVars, sinkDown,
                 seqVars>>

\* a row-count failure that ends the run
RunRouteUnresolvedAborts ==
  /\ runPc = "other"
  /\ otherIdx > Len(groups[cur].OtherQueries)
  /\ groups[cur].AlterParts # <<>>
  /\ trace' = Append(trace, Ev("GetTableRowCount", "ROUTE", <<Tbl(cur)>>,
                               "err", 0))
  /\ RunReturn(TRUE)
  /\ UNCHANGED <<cmd, tableName, dryRun, config, notes, queries, parsed,
                 groups, pending, otherIdx, routed, ntIdx, swapVars, exVars,
                 cleanVars, countVars, sinkDown, seqVars>>

\* executeTableGroup: m.db.GetTableRowCount failed, the group is treated as
\* small
RunRouteUnresolved ==
  /\ runPc = "other"
  /\ otherIdx > Len(groups[cur].OtherQueries)
  /\ groups[cur].AlterParts # <<>>
  /\ trace' = Append(trace, Ev("GetTableRowCount", "ROUTE", <<Tbl(cur)>>,
                               "err", 0))
  /\ runPc' = "small"
  /\ UNCHANGED <<cmd, tableName, dryRun, config, notes, result, queries,
                 parsed, groups, pending, cur, otherIdx, routed, ntIdx,
                 swapVars, exVars, cleanVars, countVars, sinkDown, seqVars>>

\* the comparison written as rowCount < threshold
RouteOfStrict(r, threshold) == IF r < threshold THEN "small" ELSE "large"

\* the branch executeTableGroup takes for row count r
RouteOf(r, threshold) == IF r <= threshold THEN "small" ELSE "large"

\* executeTableGroup: the row count resolved to r
RunRoute(r) ==
  /\ runPc = "other"
  /\ otherIdx > Len(groups[cur].OtherQueries)
  /\ groups[cur].AlterParts # <<>>
  /\ trace' = Append(trace, Ev("GetTableRowCount", "ROUTE", <<Tbl(cur)>>,
                               "ok", r))
  /\ routed' = [routed EXCEPT ![cur] = r]
  /\ runPc' = RouteOf(r, config.ptOscThreshold)
  /\ UNCHANGED <<cmd, tableName, dryRun, config, notes, result, queries,
                 parsed, groups, pending, cur, otherIdx, ntIdx, swapVars,
                 exVars, cleanVars, countVars, sinkDown, seqVars>>

\* executeAlterPartsAsSmallQueries
RunSmallAlter(connAns, rcAns, answers) ==
  /\ runPc = "small"
  /\ LET task == TaskName("alter-table")
         c == checkOtherActiveConnections(config.connectionCheck, task, cur,
                                          connAns)
         x == AlterLoop(dryRun, cur, groups[cur].AlterParts, answers)
     IN IF c.err
        THEN /\ trace' = trace \o c.tr
             /\ notes' = notes \o c.nt
             /\ RunReturn(TRUE)
        ELSE /\ trace' = trace \o c.tr
                  \o <<Ev("GetTableRowCount", "", <<Tbl(cur)>>, rcAns, 0)>>
                  \o x.tr
             /\ notes' = notes
                  \o <<Note("NotifyStartWithQuery", task, cur)>>
                  \o x.nt
                  \o <<Note(IF x.err THEN "NotifyFailureWithQuery"
                            ELSE "NotifySuccessWithQuery", task, cur)>>
             /\ IF x.err
                THEN RunReturn(TRUE)
                ELSE /\ cur' = ""
                     /\ runPc' = "tables"
                     /\ UNCHANGED result
  /\ UNCHANGED <<cmd, tableName, dryRun, config, queries, parsed, groups,
                 pending, otherIdx, routed, ntIdx, swapVars, exVars, cleanVars,
                 countVars, sinkDown, seqVars>>

\* answers of the online tool: failure, success, and for the dry-run entry
\* point success without a DryRunResult
ToolAnswers == {"ok", "nil", "err"}

\* strings.Join(alterParts, ", ")
RECURSIVE JoinParts(_)
JoinParts(parts) ==
  IF parts = <<>> THEN <<>>
  ELSE IF Len(parts) = 1 THEN parts[1]
  ELSE parts[1] \o <<",">> \o JoinParts(Tail(parts))

\* a tool invocation whose failure is returned without a notification
InvokePtOscSilentFailure(dry, task, t, parts, toolAns, newRcAns) ==
  LET args == PtOscBuildArgs(<<t>>, JoinParts(parts), config.ptOsc,
                             config.dsn, dry).args
  IN [tr |-> <<ToolEv(IF dry THEN "ExecuteAlterWithDryRunResult"
                      ELSE "PtOscExecuteAlter", "PTOSC", <<Tbl(t)>>,
                      <<JoinParts(parts)>>, dry, toolAns, args)>>,
      nt |-> IF toolAns = "err" THEN <<>>
             ELSE <<Note("NotifySuccessWithQuery", task, t)>>,
      err |-> toolAns = "err"]

\* the tool invocation of executeLargeAlterQuery and what follows it
InvokePtOsc(dry, task, t, parts, toolAns, newRcAns) ==
  LET args == PtOscBuildArgs(<<t>>, JoinParts(parts), config.ptOsc,
                             config.dsn, dry).args
  IN
  IF dry
  THEN [tr |-> <<ToolEv("ExecuteAlterWithDryRunResult", "PTOSC", <<Tbl(t)>>,
                        <<JoinParts(parts)>>, dry, toolAns, args)>>,
        nt |-> <<Note(CASE toolAns = "err" -> "NotifyFailureWithQuery"
                        [] toolAns = "ok" -> "NotifyDryRunResult"
                        [] OTHER -> "NotifySuccessWithQuery", task, t)>>,
        err |-> toolAns = "err"]
  ELSE IF toolAns = "err"
  THEN [tr |-> <<ToolEv("PtOscExecuteAlter", "PTOSC", <<Tbl(t)>>,
                        <<JoinParts(parts)>>, dry, "err", args)>>,
        nt |-> <<Note("NotifyFailureWithQueryAndLog", task, t)>>,
        err |-> TRUE]
  ELSE [tr |-> <<ToolEv("PtOscExecuteAlter", "PTOSC", <<Tbl(t)>>,
                        <<JoinParts(parts)>>, dry, "ok", args),
                 Ev("GetTableRowCount", "", <<NewTbl(t)>>, newRcAns, 0)>>,
        nt |-> <<Note(IF newRcAns = "err"
                      THEN "NotifySuccessWithQueryAndLog"
                      ELSE "NotifyPtOscCompletionWithNewTableCount", task, t)>>,
        err |-> FALSE]

\* executeLargeAlterQuery
RunLargeAlter(connAns, newAns, toolAns, newRcAns) ==
  /\ runPc = "large"
  /\ LET task == TaskName("pt-osc")
         c == checkOtherActiveConnections(config.connectionCheck, task, cur,
                                          connAns)
         k == checkNewTableExists(task, cur, newAns)
         x == InvokePtOsc(dryRun, task, cur, groups[cur].AlterParts, toolAns,
                          newRcAns)
     IN IF c.err
        THEN /\ trace' = trace \o c.tr
             /\ notes' = notes \o c.nt
             /\ RunReturn(TRUE)
        ELSE IF k.err
        THEN /\ trace' = trace \o c.tr \o k.tr
             /\ notes' = notes \o c.nt \o k.nt
             /\ RunReturn(TRUE)
        ELSE /\ trace' = trace \o c.tr \o k.tr \o x.tr
             /\ notes' = notes
                  \o <<Note("NotifyStartWithQuery", task, cur)>> \o x.nt
             /\ IF x.err
                THEN RunReturn(TRUE)
                ELSE /\ cur' = ""
                     /\ runPc' = "tables"
                     /\ UNCHANGED result
  /\ UNCHANGED <<cmd, tableName, dryRun, config, queries, parsed, groups,
                 pending, otherIdx, routed, ntIdx, swapVars, exVars, cleanVars,
                 countVars, sinkDown, seqVars>>

\* the table loop is over: on to the statements without a table name
RunTablesDone ==
  /\ runPc = "tables"
  /\ cur = ""
  /\ pending = {}
  /\ runPc' = "nontable"
  /\ ntIdx' = 1
  /\ UNCHANGED <<mgrVars, queries, parsed, groups, pending, cur, otherIdx,
                 routed, swapVars, exVars, cleanVars, countVars, sinkDown,
                 seqVars>>

\* one iteration of the loop over queries: a statement with a table name
\* is skipped, one without is executed
RunNonTableQuery(ans) ==
  /\ runPc = "nontable"
  /\ ntIdx <= Len(parsed)
  /\ IF parsed[ntIdx].TableName # ""
     THEN /\ ntIdx' = ntIdx + 1
          /\ UNCHANGED <<trace, notes, runPc, result, cur>>
     ELSE LET x == NotifiedQuery(dryRun, parsed[ntIdx], "non-table-query",
                                 ans)
          IN /\ trace' = trace \o x.tr
             /\ notes' = notes \o x.nt
             /\ IF x.err
                THEN RunReturn(TRUE) /\ UNCHANGED ntIdx
                ELSE /\ ntIdx' = ntIdx + 1
                     /\ UNCHANGED <<runPc, result, cur>>
  /\ UNCHANGED <<cmd, tableName, dryRun, config, queries, parsed, groups,
                 pending, otherIdx, routed, swapVars, exVars, cleanVars,
                 countVars, sinkDown, seqVars>>

\* return nil
RunFinish ==
  /\ runPc = "nontable"
  /\ ntIdx > Len(parsed)
  /\ RunReturn(FALSE)
  /\ UNCHANGED <<cmd, tableName, dryRun, config, trace, notes, queries, parsed,
                 groups, pending, otherIdx, routed, ntIdx, swapVars, exVars,
                 cleanVars, countVars, sinkDown, seqVars>>

\* the statements of the modelled batches
qCreateOrders == <<"CREATE", "TABLE", "if", "not", "exists", "orders", "(id)">>
qAlterUsersAdd == <<"ALTER", "TABLE", "users", "ADD", "x">>
qAlterUsersDrop == <<"", "alter", "table", "~users~", "DROP", "y">>
qAlterOrders == <<"ALTER", "TABLE", "orders", "ADD", "z">>
qAlterBare == <<"ALTER", "TABLE", "users">>
qDropIndex == <<"DROP", "INDEX", "i", "ON", "users">>
qInsert == <<"insert", "INTO", "users">>
qDropTypo == <<"droptable", "orders">>
qDropOrders == <<"DROP", "TABLE", "orders">>
qDropTypoUsers == <<"droptable", "users">>

\* most ALTER fragments one table has in a batch
MaxParts == 2

Batches ==
  { <<qCreateOrders, qAlterUsersAdd, qAlterUsersDrop>>,
    <<qAlterUsersAdd, qAlterOrders>>,
    <<qAlterOrders, qDropIndex>>,
    <<qAlterBare, qCreateOrders>>,
    <<qAlterUsersAdd, qInsert>>,
    <<qAlterOrders, qDropTypo>>,
    <<qDropTypo, qCreateOrders, qDropOrders, qAlterOrders, qDropTypoUsers>> }

NextRun ==
  \/ RunParse
  \/ \E t \in Tables : RunNextTable(t)
  \/ \E rcAns \in {"ok", "err"}, ans \in ExecAnswers : RunOtherQuery(rcAns, ans)
  \/ RunGroupWithoutAlter
  \/ RunRouteUnresolved
  \/ \E r \in 0..MaxRows : RunRoute(r)
  \/ \E connAns \in ConnAnswers, rcAns \in {"ok", "err"},
        answers \in [1..MaxParts -> ExecAnswers] :
       RunSmallAlter(connAns, rcAns, answers)
  \/ \E connAns \in ConnAnswers, newAns \in {"true", "false", "err"},
        toolAns \in ToolAnswers, newRcAns \in {"ok", "err"} :
       RunLargeAlter(connAns, newAns, toolAns, newRcAns)
  \/ RunTablesDone
  \/ \E ans \in ExecAnswers : RunNonTableQuery(ans)
  \/ RunFinish

(***************************************************************************)
(* PurgeOldTable, CleanupOldTable, CleanupNewTable and CleanupTriggers.    *)
(***************************************************************************)
\* extractDatabaseNameFromDSN: the text after the last `/`, without the
\* parameters after `?`
extractDatabaseNameFromDSN(dsn) ==
  LET parts == Split(dsn, <<"/">>)
      last == parts[Len(parts)]
      dbPart == IF Contains(last, <<"?">>)
                THEN Split(last, <<"?">>)[1] ELSE last
  IN IF Len(parts) < 2 \/ dbPart = <<>>
     THEN [err |-> TRUE, name |-> <<>>]
     ELSE [err |-> FALSE, name |-> dbPart]

\* fmt.Sprintf("%s_old", tableName)
OldName(t) == IF t = "users" THEN "users_old" ELSE "orders_old"

\* PurgeOldTable with a dry-run flag that is never handed to the tool
PurgeOldTableNoDryRun(name, t, toolAns, hasLog) ==
  LET task == TaskName("pt-archiver")
      args == PtArchiverBuildArgs(name, config.ptArchiver, config.dsn,
                                  FALSE).args
  IN [tr |-> <<ToolEv("ExecutePurge", "PTARCHIVER", <<name>>, <<>>, FALSE,
                      toolAns, args)>>,
      nt |-> <<Note("NotifyStartWithQuery", task, t),
               Note(IF toolAns = "err" THEN "NotifyFailureWithQuery"
                    ELSE IF hasLog THEN "NotifySuccessWithQueryAndLog"
                    ELSE "NotifySuccessWithQuery", task, t)>>,
      err |-> toolAns = "err"]

\* PurgeOldTable: name is the table as the tool is given it, t as the
\* notifier is
PurgeOldTable(name, t, toolAns, hasLog) ==
  LET task == TaskName("pt-archiver")
      args == PtArchiverBuildArgs(name, config.ptArchiver, config.dsn,
                                  dryRun).args
  IN [tr |-> <<ToolEv("ExecutePurge", "PTARCHIVER", <<name>>, <<>>, dryRun,
                      toolAns, args)>>,
      nt |-> <<Note("NotifyStartWithQuery", task, t),
               Note(IF toolAns = "err" THEN "NotifyFailureWithQuery"
                    ELSE IF hasLog THEN "NotifySuccessWithQueryAndLog"
                    ELSE "NotifySuccessWithQuery", task, t)>>,
      err |-> toolAns = "err"]

\* a DROP that is sent in a dry run too
DropTableAlways(name, stmt, base, t, ans) ==
  [tr |-> <<EvX("ExecuteAlter", "DROP", <<name>>, <<stmt>>, FALSE,
                IF ans = 0 THEN "ok" ELSE "err", ans)>>,
   nt |-> <<Note("NotifyStartWithQuery", TaskName(base), t),
            Note(IF ans = 0 THEN "NotifySuccessWithQuery"
                 ELSE "NotifyFailureWithQuery", TaskName(base), t)>>,
   err |-> ans # 0]

\* the DROP TABLE IF EXISTS of CleanupOldTable and CleanupNewTable between
\* its notifications
DropTable(name, stmt, base, t, ans) ==
  IF dryRun
  THEN [tr |-> <<>>,
        nt |-> <<Note("NotifyStartWithQuery", TaskName(base), t),
                 Note("NotifySuccessWithQuery", TaskName(base), t)>>,
        err |-> FALSE]
  ELSE [tr |-> <<EvX("ExecuteAlter", "DROP", <<name>>, <<stmt>>, FALSE,
                     IF ClientExecuteAlter(ans) = NoError THEN "ok" ELSE "err",
                     ans)>>,
        nt |-> <<Note("NotifyStartWithQuery", TaskName(base), t),
                 Note(IF ClientExecuteAlter(ans) = NoError
                      THEN "NotifySuccessWithQuery"
                      ELSE "NotifyFailureWithQuery", TaskName(base), t)>>,
        err |-> ClientExecuteAlter(ans) # NoError]

CleanReturn(err) ==
  /\ clPc' = "returned"
  /\ result' = IF err THEN "error" ELSE "ok"

\* PurgeOldTable called on its own
PurgeRun(toolAns, hasLog) ==
  /\ cmd = "purge"
  /\ clPc = "start"
  /\ LET x == PurgeOldTable(<<tableName>>, tableName, toolAns, hasLog) IN
       /\ trace' = trace \o x.tr
       /\ notes' = notes \o x.nt
       /\ CleanReturn(x.err)
  /\ UNCHANGED <<cmd, tableName, dryRun, config, swapVars, runVars, exVars,
                 countVars, sinkDown, seqVars>>

\* a cleanup that never purges
CleanupOldPurgeSkipped(toolAns, hasLog) ==
  /\ cmd = "cleanupOld"
  /\ clPc = "start"
  /\ clPc' = "buffer"
  /\ UNCHANGED <<cmd, tableName, dryRun, config, trace, notes, result,
                 swapVars, runVars, exVars, countVars, sinkDown, seqVars>>

\* CleanupOldTable: the purge of <table>_old when pt-archiver is enabled
CleanupOldPurge(toolAns, hasLog) ==
  /\ cmd = "cleanupOld"
  /\ clPc = "start"
  /\ IF config.ptArchiver.Enabled
     THEN LET x == PurgeOldTable(<<tableName, "_old">>, OldName(tableName),
                                 toolAns, hasLog) IN
            /\ trace' = trace \o x.tr
            /\ notes' = notes \o x.nt
            /\ IF x.err THEN CleanReturn(TRUE)
               ELSE clPc' = "buffer" /\ UNCHANGED result
     ELSE /\ clPc' = "buffer"
          /\ UNCHANGED <<trace, notes, result>>
  /\ UNCHANGED <<cmd, tableName, dryRun, config, swapVars, runVars, exVars,
                 countVars, sinkDown, seqVars>>

\* sizes GetTableBufferPoolSizeMB answers and the configured thresholds
BufferPoolSizes == {0, 100, 101}
BufferPoolThresholds == {0, 100}

\* CleanupOldTable: the buffer pool check
CleanupOldBufferPool(ok, mb) ==
  /\ cmd = "cleanupOld"
  /\ clPc = "buffer"
  /\ IF config.bufferPoolSizeThresholdMB > 0
     THEN IF extractDatabaseNameFromDSN(config.dsn).err
          THEN CleanReturn(TRUE) /\ UNCHANGED trace
          ELSE /\ trace' = Append(trace,
                      Ev("GetTableBufferPoolSizeMB", "", <<OldTbl(tableName)>>,
                         IF ok THEN "ok" ELSE "err", IF ok THEN mb ELSE 0))
               /\ IF ok /\ mb > config.bufferPoolSizeThresholdMB
                  THEN CleanReturn(TRUE)
                  ELSE clPc' = "drop" /\ UNCHANGED result
     ELSE /\ clPc' = "drop"
          /\ UNCHANGED <<trace, result>>
  /\ UNCHANGED <<cmd, tableName, dryRun, config, notes, swapVars, runVars,
                 exVars, countVars, sinkDown, seqVars>>

\* CleanupOldTable: DROP TABLE IF EXISTS <table>_old
CleanupOldDrop(ans) ==
  /\ cmd = "cleanupOld"
  /\ clPc = "drop"
  /\ LET x == DropTable(OldTbl(tableName),
                        <<"DROP", "TABLE", "IF", "EXISTS",
                          OldName(tableName)>>,
                        "cleanup", tableName, ans) IN
       /\ trace' = trace \o x.tr
       /\ notes' = notes \o x.nt
       /\ CleanReturn(x.err)
  /\ UNCHANGED <<cmd, tableName, dryRun, config, swapVars, runVars, exVars,
                 countVars, sinkDown, seqVars>>

\* CleanupNewTable: DROP TABLE IF EXISTS _<table>_new
CleanupNewTable(ans) ==
  /\ cmd = "cleanupNew"
  /\ clPc = "start"
  /\ LET x == DropTable(NewTbl(tableName),
                        <<"DROP", "TABLE", "IF", "EXISTS", "_", tableName,
                          "_new">>,
                        "new-table-cleanup", tableName, ans) IN
       /\ trace' = trace \o x.tr
       /\ notes' = notes \o x.nt
       /\ CleanReturn(x.err)
  /\ UNCHANGED <<cmd, tableName, dryRun, config, swapVars, runVars, exVars,
                 countVars, sinkDown, seqVars>>

\* the suffixes of the triggers of the online tool, in the order they are
\* dropped
TriggerSuffixes == <<"_del", "_upd", "_ins">>

TriggerName(db, t, suffix) == <<"pt_osc_">> \o db \o <<"_", t, suffix>>

\* m.db.ExecuteAlter("DROP TRIGGER IF EXISTS <trigger>")
TriggerDrop(db, t, i, ans) ==
  EvX("ExecuteAlter", "DROP TRIGGER",
      <<TriggerName(db, t, TriggerSuffixes[i])>>, <<>>, FALSE,
      IF ClientExecuteAlter(ans) = NoError THEN "ok" ELSE "err", ans)

\* a loop that ends at the first trigger that cannot be dropped
TriggerDropsUntilFailure(db, t, answers) ==
  LET failed == {i \in 1..3 : ClientExecuteAlter(answers[i]) # NoError}
      last == IF failed = {} THEN 3
              ELSE CHOOSE i \in failed : \A k \in failed : i <= k
  IN [i \in 1..last |-> TriggerDrop(db, t, i, answers[i])]

\* the loop over the three triggers
TriggerDrops(db, t, answers) ==
  [i \in 1..3 |-> TriggerDrop(db, t, i, answers[i])]

\* CleanupTriggers: every trigger is tried, a failure is reported at the
\* end
CleanupTriggers(answers) ==
  /\ cmd = "cleanupTriggers"
  /\ clPc = "start"
  /\ LET db == extractDatabaseNameFromDSN(config.dsn)
         task == TaskName("trigger-cleanup")
         hasErrors == ~dryRun /\ \E i \in 1..3 :
                        ClientExecuteAlter(answers[i]) # NoError
     IN IF db.err
        THEN CleanReturn(TRUE) /\ UNCHANGED <<trace, notes>>
        ELSE /\ trace' = trace \o
                  (IF dryRun THEN <<>>
                   ELSE TriggerDrops(db.name, tableName, answers))
             /\ notes' = notes \o
                  <<Note("NotifyTriggerCleanupStart", task, tableName),
                    Note(IF hasErrors THEN "NotifyTriggerCleanupFailure"
                         ELSE "NotifyTriggerCleanupSuccess", task, tableName)>>
             /\ CleanReturn(hasErrors)
  /\ UNCHANGED <<cmd, tableName, dryRun, config, swapVars, runVars, exVars,
                 countVars, sinkDown, seqVars>>

NextCleanup ==
  \/ \E toolAns \in {"ok", "err"}, hasLog \in BOOLEAN :
       PurgeRun(toolAns, hasLog)
  \/ \E toolAns \in {"ok", "err"}, hasLog \in BOOLEAN :
       CleanupOldPurge(toolAns, hasLog)
  \/ \E ok \in BOOLEAN, mb \in BufferPoolSizes : CleanupOldBufferPool(ok, mb)
  \/ \E ans \in ExecAnswers : CleanupOldDrop(ans)
  \/ \E ans \in ExecAnswers : CleanupNewTable(ans)
  \/ \E answers \in [1..3 -> ExecAnswers] : CleanupTriggers(answers)

InitCleanup ==
  /\ cmd \in {"purge", "cleanupOld", "cleanupNew", "cleanupTriggers"}
  /\ tableName \in Tables
  /\ dryRun \in BOOLEAN
  /\ config \in
       {[c EXCEPT !.ptArchiver = a, !.bufferPoolSizeThresholdMB = b,
                  !.dsn = d] :
          c \in {k \in Configs : /\ ~k.connectionCheck
                                 /\ ~k.disableAnalyzeTable
                                 /\ k.thresholdSeconds = 0
                                 /\ k.ptOscThreshold = 1},
          a \in PtArchiverConfigs, b \in BufferPoolThresholds,
          d \in {DsnPassword, DsnParams, DsnNoDatabase}}
  /\ trace = <<>>
  /\ notes = <<>>
  /\ result = "none"
  /\ clPc = "start"
  /\ SwapIdle
  /\ RunIdle
  /\ CountIdle
  /\ sinkDown \in BOOLEAN
  /\ SeqIdle
  /\ ExecIdle

(***************************************************************************)
(* MySQLClient.GetTableRowCount, followed by the branch executeTableGroup  *)
(* takes on what it returns.                                               *)
(***************************************************************************)
\* the statistics sources in the order they are tried, and the table each
\* falls back to
ApproxTiers == <<"INNODB_SYS_TABLESTATS", "INNODB_TABLESTATS", "TABLES">>

\* a fallback order that leaves INNODB_TABLESTATS out
TierAfterSkips(tier) ==
  CASE tier = "INNODB_SYS_TABLESTATS" -> "TABLES"
    [] tier = "INNODB_TABLESTATS" -> "TABLES"
    [] tier = "TABLES" -> "COUNT"

\* the source tried after a failed one
TierAfter(tier) ==
  CASE tier = "INNODB_SYS_TABLESTATS" -> "INNODB_TABLESTATS"
    [] tier = "INNODB_TABLESTATS" -> "TABLES"
    [] tier = "TABLES" -> "COUNT"

Query(tier, ok, n) == [tier |-> tier, ok |-> ok, n |-> IF ok THEN n ELSE 0]

CountReturn(count, err) ==
  /\ rcOut' = [count |-> count, err |-> err]
  /\ rcPc' = "returned"

\* a statistics read of 0 that is returned as it is
CountApproxTrustsZero(ok, n) ==
  /\ rcPc \in {"INNODB_SYS_TABLESTATS", "INNODB_TABLESTATS", "TABLES"}
  /\ rcQueries' = Append(rcQueries, Query(rcPc, ok, n))
  /\ IF ~ok
     THEN rcPc' = TierAfter(rcPc) /\ UNCHANGED rcOut
     ELSE CountReturn(n, FALSE)
  /\ UNCHANGED <<rcTable, rcActual, rcThreshold, rcRoute, exVars, mgrVars,
                 swapVars, runVars, cleanVars, sinkDown, seqVars>>

\* c.db.Get on one of the statistics sources: an error moves on to the next
\* source, a 0 to the verification, any other number is returned
CountApprox(ok, n) ==
  /\ rcPc \in {"INNODB_SYS_TABLESTATS", "INNODB_TABLESTATS", "TABLES"}
  /\ rcQueries' = Append(rcQueries, Query(rcPc, ok, n))
  /\ IF ~ok
     THEN rcPc' = TierAfter(rcPc) /\ UNCHANGED rcOut
     ELSE IF n = 0
     THEN rcPc' = "verify" /\ UNCHANGED rcOut
     ELSE CountReturn(n, FALSE)
  /\ UNCHANGED <<rcTable, rcActual, rcThreshold, rcRoute, exVars, mgrVars,
                 swapVars, runVars, cleanVars, sinkDown, seqVars>>

\* SELECT COUNT(*) after every statistics source failed
CountFallback(ok) ==
  /\ rcPc = "COUNT"
  /\ rcQueries' = Append(rcQueries, Query("COUNT", ok, rcActual))
  /\ CountReturn(IF ok THEN rcActual ELSE 0, ~ok)
  /\ UNCHANGED <<rcTable, rcActual, rcThreshold, rcRoute, exVars, mgrVars,
                 swapVars, runVars, cleanVars, sinkDown, seqVars>>

\* SELECT COUNT(*) after the statistics read 0
CountVerify(ok) ==
  /\ rcPc = "verify"
  /\ rcQueries' = Append(rcQueries, Query("COUNT", ok, rcActual))
  /\ CountReturn(IF ok THEN rcActual ELSE 0, ~ok)
  /\ UNCHANGED <<rcTable, rcActual, rcThreshold, rcRoute, exVars, mgrVars,
                 swapVars, runVars, cleanVars, sinkDown, seqVars>>

\* executeTableGroup: an error is treated as a small table, a count is
\* compared with the threshold
CountRoute ==
  /\ rcPc = "returned"
  /\ rcRoute' = IF rcOut.err THEN "small"
                ELSE RouteOf(rcOut.count, rcThreshold)
  /\ rcPc' = "routed"
  /\ UNCHANGED <<rcTable, rcActual, rcThreshold, rcQueries, rcOut, exVars,
                 mgrVars, swapVars, runVars, cleanVars, sinkDown, seqVars>>

NextCount ==
  \/ \E ok \in BOOLEAN, n \in 0..MaxRows : CountApprox(ok, n)
  \/ \E ok \in BOOLEAN : CountFallback(ok)
  \/ \E ok \in BOOLEAN : CountVerify(ok)
  \/ CountRoute

InitCount ==
  /\ rcPc = "INNODB_SYS_TABLESTATS"
  /\ rcTable \in {Tbl(t) : t \in Tables} \cup {NewTbl(t) : t \in Tables}
  /\ rcActual \in 0..MaxRows
  /\ rcThreshold \in PtOscThresholds
  /\ rcQueries = <<>>
  /\ rcOut = [count |-> 0, err |-> FALSE]
  /\ rcRoute = "none"
  /\ sinkDown = FALSE
  /\ SeqIdle
  /\ MgrIdle
  /\ ExecIdle

SpecCount == InitCount /\ [][NextCount]_vars

\* the configurations of a run: the settings only SwapTable reads are
\* left at their defaults, and one configuration asks for a dry run of
\* pt-online-schema-change
RunConfigs ==
  LET base == {c \in Configs : ~c.disableAnalyzeTable /\ c.thresholdSeconds = 0}
  IN base \cup {[c EXCEPT !.ptOsc.DryRun = TRUE] :
                  c \in {k \in base : ~k.connectionCheck /\ k.ptOscThreshold = 1}}

InitRun ==
  /\ cmd = "run"
  /\ tableName = ""
  /\ dryRun \in BOOLEAN
  /\ config \in RunConfigs
  /\ trace = <<>>
  /\ notes = <<>>
  /\ result = "none"
  /\ queries \in Batches
  /\ runPc = "parse"
  /\ parsed = <<>>
  /\ groups = <<>>
  /\ pending = {}
  /\ cur = ""
  /\ otherIdx = 1
  /\ routed = <<>>
  /\ ntIdx = 1
  /\ SwapIdle
  /\ CleanIdle
  /\ CountIdle
  /\ sinkDown \in BOOLEAN
  /\ SeqIdle
  /\ ExecIdle

InitSwap ==
  /\ cmd = "swap"
  /\ tableName \in Tables
  /\ dryRun \in BOOLEAN
  /\ config \in Configs
  /\ trace = <<>>
  /\ notes = <<>>
  /\ result = "none"
  /\ swPc = "start"
  /\ renameRes = "none"
  /\ monPc = "none"
  /\ cancelled = FALSE
  /\ ctxPairs = 0
  /\ timerFiredAt = "never"
  /\ ExecIdle
  /\ RunIdle
  /\ CleanIdle
  /\ CountIdle
  /\ sinkDown \in IF tableName = "users" THEN BOOLEAN ELSE {FALSE}
  /\ SeqIdle

Init == InitRun \/ InitSwap \/ InitCleanup

Next == NextRun \/ NextSwap \/ NextCleanup

Spec == Init /\ [][Next]_vars


\* an invocation of one of the entry points on any of the connection
\* strings and configurations: only the construction of the command
InitArgs ==
  /\ exVariant \in Variants
  /\ exInput \in [table : {<<"users">>}, alter : {<<"ADD", "x">>}, dsn : Dsns,
                  forceDryRun : BOOLEAN, ptOsc : PtOscConfigs,
                  ptArchiver : PtArchiverConfigs]
  /\ exArgs = <<>>
  /\ exLog = <<>>
  /\ exStdin = <<>>
  /\ exPc = "start"
  /\ procState = "none"
  /\ exitCode = 0
  /\ emitted = [s \in Streams |-> <<>>]
  /\ pipe = [s \in Streams |-> <<>>]
  /\ pipeClosed = FALSE
  /\ drainPc = [s \in Streams |-> "none"]
  /\ drainBuf = [s \in Streams |-> <<>>]
  /\ drainLine = [s \in Streams |-> <<>>]
  /\ drainLoad = [s \in Streams |-> <<>>]
  /\ hasError = FALSE
  /\ errorMessages = <<>>
  /\ outputSummary = <<>>
  /\ verdict = "none"
  /\ MgrIdle
  /\ CountIdle
  /\ sinkDown = FALSE
  /\ SeqIdle

NextArgs == ExecStart \/ ExecStartFails

SpecArgs == InitArgs /\ [][NextArgs]_vars

InitExec ==
  /\ exVariant \in Variants
  /\ exInput \in {[BaseInput EXCEPT !.forceDryRun = f] : f \in BOOLEAN}
  /\ exArgs = <<>>
  /\ exLog = <<>>
  /\ exStdin = <<>>
  /\ exPc = "start"
  /\ procState = "none"
  /\ exitCode = 0
  /\ emitted = [s \in Streams |-> <<>>]
  /\ pipe = [s \in Streams |-> <<>>]
  /\ pipeClosed = FALSE
  /\ drainPc = [s \in Streams |-> "none"]
  /\ drainBuf = [s \in Streams |-> <<>>]
  /\ drainLine = [s \in Streams |-> <<>>]
  /\ drainLoad = [s \in Streams |-> <<>>]
  /\ hasError = FALSE
  /\ errorMessages = <<>>
  /\ outputSummary = <<>>
  /\ verdict = "none"
  /\ MgrIdle
  /\ CountIdle
  /\ sinkDown = FALSE
  /\ SeqIdle

SpecExec == InitExec /\ [][NextExec]_vars

\* two invocations in a row on one executor instance
NextSeq ==
  \/ NextExec
  \/ ExecAgain
  \/ \E s \in Streams : LateScan(s)
  \/ \E s \in Streams : LateAppend(s)
  \/ \E s \in Streams : LateClassify(s)

\* the two ways the drain loops are written: logOutputWithSummary in an
\* executing call, logOutputWithDryRunAnalysis in a dry run
InitSeq ==
  /\ InitExec
  /\ \/ exVariant = "ExecuteAlter" /\ ~exInput.forceDryRun
     \/ exVariant = "ExecuteAlterWithDryRunResult" /\ exInput.forceDryRun

SpecSeq == InitSeq /\ [][NextSeq]_vars

(***************************************************************************)
(* Properties.                                                             *)
(***************************************************************************)
IsTool(e) == e.verb = "PTOSC"
IsDirect(e) == e.op = "ExecuteAlter"

ToolInvoked(t) ==
  \E i \in DOMAIN trace : IsTool(trace[i]) /\ trace[i].names = <<Tbl(t)>>

DirectAlter(t) ==
  \E i \in DOMAIN trace :
    /\ IsDirect(trace[i])
    /\ trace[i].verb = "ALTER"
    /\ trace[i].names = <<Tbl(t)>>

GroupOver(t) == t \notin pending /\ cur # t

\* position of the routing row-count call of table t
RouteIndex(t) ==
  CHOOSE i \in DOMAIN trace :
    trace[i].verb = "ROUTE" /\ trace[i].names = <<Tbl(t)>>

\* the active-connection check that follows the routing of t let it pass
ConnectionCheckPassed(t) ==
  \/ ~config.connectionCheck
  \/ /\ Len(trace) > RouteIndex(t)
     /\ trace[RouteIndex(t) + 1].res = "none"

\* the stale-artifact check of t found no working table
NewTableAbsent(t) ==
  \E i \in DOMAIN trace :
    /\ trace[i].op = "CheckNewTableExists"
    /\ trace[i].names = <<NewTbl(t)>>
    /\ trace[i].res = "false"

Routed == {t \in DOMAIN routed : routed[t] >= 0}

\* C1, as stated: a table group with ALTER fragments whose row count
\* resolved to r has its ALTER executed directly and no tool run when
\* r <= threshold, and the tool run and no direct ALTER when r > threshold.
C1_RoutingAsStated ==
  \A t \in Routed :
    GroupOver(t) =>
      IF routed[t] <= config.ptOscThreshold
      THEN DirectAlter(t) /\ ~ToolInvoked(t)
      ELSE ToolInvoked(t) /\ ~DirectAlter(t)

\* C1, amended: with r <= threshold the tool is never invoked for the
\* table, and its ALTER is executed directly when the run is not a dry run
\* and the active-connection check passes; with r > threshold no direct
\* ALTER is issued for the table, and the tool is invoked when the
\* active-connection check and the stale-artifact check pass.
C1_Routing ==
  \A t \in Routed :
    IF routed[t] <= config.ptOscThreshold
    THEN /\ ~ToolInvoked(t)
         /\ (GroupOver(t) /\ ~dryRun /\ ConnectionCheckPassed(t))
              => DirectAlter(t)
    ELSE /\ ~DirectAlter(t)
         /\ (GroupOver(t) /\ ConnectionCheckPassed(t) /\ NewTableAbsent(t))
              => ToolInvoked(t)

\* a table at the boundary r = threshold got its direct ALTER and another
\* table just above it got the tool
C1_Witness ==
  \E t \in Routed, u \in Routed :
    /\ routed[t] = config.ptOscThreshold
    /\ DirectAlter(t)
    /\ routed[u] = config.ptOscThreshold + 1
    /\ ToolInvoked(u)

\* C2, as stated: when the verdict of an external-tool invocation that
\* started its process is computed, the process has been reaped, both drain
\* loops have terminated and every line the process emitted has been
\* consumed by them.
C2_DrainsJoinedBeforeVerdict ==
  (verdict # "none" /\ procState # "none") =>
    /\ procState = "exited"
    /\ \A s \in Streams :
         /\ drainPc[s] = "done"
         /\ pipe[s] = <<>>
         /\ \A i \in DOMAIN emitted[s] :
              \E k \in DOMAIN outputSummary :
                outputSummary[k] = SummaryEntry(s, emitted[s][i])

SomeEmittedLineMatches ==
  \E s \in Streams : \E i \in DOMAIN emitted[s] :
    containsErrorPattern(exVariant, emitted[s][i])

\* C3, as stated: once the process has run, the executor returns failure
\* exactly when the exit status
\* is non-zero or some line emitted on stdout or stderr matches the
\* error-pattern set.
C3_VerdictIffExitOrErrorLine ==
  (verdict # "none" /\ procState = "exited") =>
    (verdict = "failure" <=> (exitCode # 0 \/ SomeEmittedLineMatches))

StaleCheckFailedAt(i) ==
  trace[i].op = "CheckNewTableExists" /\ trace[i].res # "false"

\* C4: once the stale-artifact check of T found _T_new or failed, the run
\* has returned an error and no tool invocation follows; and every tool
\* invocation for T directly follows a stale-artifact check of _T_new that
\* found nothing.
C4_NoToolWhileNewTableExists ==
  /\ \A i \in DOMAIN trace :
       StaleCheckFailedAt(i) =>
         /\ result = "error"
         /\ \A j \in DOMAIN trace : j > i => ~IsTool(trace[j])
  /\ \A j \in DOMAIN trace :
       IsTool(trace[j]) =>
         /\ j > 1
         /\ trace[j - 1].op = "CheckNewTableExists"
         /\ trace[j - 1].names = <<NewTbl(trace[j].names[1][2])>>
         /\ trace[j - 1].res = "false"

\* the stale-artifact check of a table above the threshold found _T_new
C4_Witness ==
  \E t \in Routed :
    /\ routed[t] > config.ptOscThreshold
    /\ \E i \in DOMAIN trace :
         /\ trace[i].op = "CheckNewTableExists"
         /\ trace[i].names = <<NewTbl(t)>>
         /\ trace[i].res = "true"
    /\ result = "error"
    /\ ~ToolInvoked(t)

ConnCheckFailedAt(i) ==
  trace[i].op = "HasOtherActiveConnections" /\ trace[i].res # "none"

IsDestructive(e) == IsDirect(e) \/ IsTool(e)

\* C5: once an enabled active-connection check found another connection or
\* failed, the operation has returned an error and no direct statement, tool
\* invocation or RENAME follows; with the check disabled the connection
\* query is never issued and the guarded operation goes on to its next call.
C5_ConnectionCheckGuards ==
  /\ \A i \in DOMAIN trace :
       ConnCheckFailedAt(i) =>
         /\ result = "error"
         /\ \A j \in DOMAIN trace : j > i => ~IsDestructive(trace[j])
  /\ ~config.connectionCheck =>
       /\ \A i \in DOMAIN trace : trace[i].op # "HasOtherActiveConnections"
       /\ (cmd = "swap" /\ swPc \notin {"start", "existsOrig"}) =>
            (trace # <<>> /\ trace[1].op = "TableExists")
       /\ \A t \in Routed :
            GroupOver(t) =>
              /\ Len(trace) > RouteIndex(t)
              /\ trace[RouteIndex(t) + 1].op =
                   IF routed[t] <= config.ptOscThreshold
                   THEN "GetTableRowCount" ELSE "CheckNewTableExists"

\* another connection was found, after which nothing was executed
C5_Witness ==
  /\ config.connectionCheck
  /\ trace # <<>>
  /\ trace[Len(trace)].op = "HasOtherActiveConnections"
  /\ trace[Len(trace)].res = "others"
  /\ result = "error"

IsRename(e) == e.op = "ExecuteAlter" /\ e.verb = "RENAME"

RenameIssued == \E i \in DOMAIN trace : IsRename(trace[i])

AbsDiff(a, b) == IF a >= b THEN a - b ELSE b - a
Larger(a, b) == IF a >= b THEN a ELSE b

\* both exact readings were obtained at positions c and c + 1
ParityReadAt(c) ==
  /\ c + 1 <= Len(trace)
  /\ trace[c].op = "GetTableRowCountForSwap"
  /\ trace[c].names = <<Tbl(tableName)>>
  /\ trace[c].res = "ok"
  /\ trace[c + 1].op = "GetTableRowCountForSwap"
  /\ trace[c + 1].names = <<NewTbl(tableName)>>
  /\ trace[c + 1].res = "ok"

SwapStepFailedAt(i) ==
  \/ trace[i].op = "TableExists" /\ trace[i].res # "true"
  \/ trace[i].op = "GetTableRowCountForSwap" /\ trace[i].res = "err"
  \/ /\ ParityReadAt(i)
     /\ 100 * AbsDiff(trace[i].n, trace[i + 1].n)
          > 5 * Larger(trace[i].n, trace[i + 1].n)
  \/ trace[i].op = "SetSessionConfig" /\ trace[i].res = "err"

\* C6: a RENAME is issued only after, in this order, the original table and
\* then _T_new were found to exist, the parity check passed, ANALYZE TABLE
\* on _T_new was attempted (unless disabled) and the session timeouts were
\* applied; a failed existence check, parity check or session step ends the
\* swap with an error and without RENAME; a failed ANALYZE TABLE does not
\* keep the RENAME from being issued.
C6_SwapOrder ==
  /\ \A r \in DOMAIN trace :
       IsRename(trace[r]) =>
         \E a \in 1..r, b \in 1..r, c \in 1..r, f \in 1..r :
           /\ a < b /\ b < c /\ c + 1 < f /\ f < r
           /\ trace[a].op = "TableExists"
           /\ trace[a].names = <<Tbl(tableName)>>
           /\ trace[a].res = "true"
           /\ trace[b].op = "TableExists"
           /\ trace[b].names = <<NewTbl(tableName)>>
           /\ trace[b].res = "true"
           /\ ParityReadAt(c)
           /\ 100 * AbsDiff(trace[c].n, trace[c + 1].n)
                <= 5 * Larger(trace[c].n, trace[c + 1].n)
           /\ trace[f].op = "SetSessionConfig"
           /\ trace[f].res = "ok"
           /\ ~config.disableAnalyzeTable =>
                \E e \in 1..r :
                  /\ c + 1 < e /\ e < f
                  /\ trace[e].op = "AnalyzeTable"
                  /\ trace[e].names = <<NewTbl(tableName)>>
  /\ cmd = "swap" =>
       \A i \in DOMAIN trace :
         SwapStepFailedAt(i) => (result = "error" /\ ~RenameIssued)
  /\ ( /\ \E e \in DOMAIN trace :
            trace[e].op = "AnalyzeTable" /\ trace[e].res = "err"
       /\ \E f \in DOMAIN trace :
            trace[f].op = "SetSessionConfig" /\ trace[f].res = "ok"
       /\ swPc \in {"renaming", "outcome", "exit", "returned"} )
     => RenameIssued

\* ANALYZE TABLE failed and the RENAME was issued all the same
C6_Witness ==
  /\ \E e \in DOMAIN trace :
       trace[e].op = "AnalyzeTable" /\ trace[e].res = "err"
  /\ RenameIssued
  /\ swPc = "returned"

\* C7: the parity check reads both counts with the exact COUNT(*) form,
\* never through the tiered GetTableRowCount, and with readings o and n it
\* fails exactly when 100 * |o - n| / max(o, n) > 5.
C7_ParityCheck ==
  cmd = "swap" =>
    /\ \A i \in DOMAIN trace :
         /\ trace[i].op # "GetTableRowCount"
         /\ trace[i].op = "GetTableRowCountForSwap" => trace[i].verb = "COUNT"
    /\ \A c \in DOMAIN trace :
         ParityReadAt(c) =>
           ( (Len(trace) = c + 1 /\ result = "error")
             <=> 100 * AbsDiff(trace[c].n, trace[c + 1].n)
                   > 5 * Larger(trace[c].n, trace[c + 1].n) )

\* original 1000 and replacement 950, exactly 5 percent, passed, and the
\* swap went on
C7_Witness ==
  \E c \in DOMAIN trace :
    /\ ParityReadAt(c)
    /\ trace[c].n = 1000
    /\ trace[c + 1].n = 950
    /\ Len(trace) > c + 1
    /\ RenameIssued

\* execution-time warnings the monitor has sent
MonitorWarnings ==
  Cardinality({i \in DOMAIN notes :
                 notes[i].op = "NotifyWarning" /\ notes[i].task = <<"swap">>})

\* C8, as stated: if the RENAME returns before the threshold timer fires,
\* no execution-time warning is emitted for that swap at any later time.
C8_NoWarningAfterEarlyRename ==
  (swPc \in {"outcome", "exit", "returned"} /\ timerFiredAt # "renaming")
    => MonitorWarnings = 0

\* C9: if the timer fires while the RENAME is blocking, at most one warning
\* is ever emitted and exactly one once the monitor has finished; the RENAME
\* is issued once, and SwapTable returns what the RENAME returned.
C9_OneWarningRenameUntouched ==
  timerFiredAt = "renaming" =>
    /\ MonitorWarnings <= 1
    /\ monPc = "done" => MonitorWarnings = 1
    /\ Cardinality({i \in DOMAIN trace : IsRename(trace[i])}) = 1
    /\ swPc = "returned" =>
         result = (IF renameRes = "err" THEN "error" ELSE "ok")

\* the timer fired during a RENAME that then failed; one warning was sent
C9_Witness ==
  /\ timerFiredAt = "renaming"
  /\ monPc = "done"
  /\ MonitorWarnings = 1
  /\ swPc = "returned"
  /\ renameRes = "err"
  /\ result = "error"

\* C10, as stated (safety part): at most one context/cancel pair is created
\* per SwapTable call, the cancellation has been signalled whenever
\* SwapTable has returned after starting the monitor, and the monitor emits
\* nothing once SwapTable has returned.
C10_MonitorDoesNotOutliveSwap ==
  /\ [](ctxPairs <= 1)
  /\ []((swPc = "returned" /\ ctxPairs > 0) => cancelled)
  /\ [][swPc = "returned" => MonitorWarnings' = MonitorWarnings]_vars

\* the first word of a statement, upper-cased
LeadingVerb(q) ==
  IF TrimSpace(q) = <<>> THEN "" ELSE UpperWord(TrimSpace(q)[1])

\* C11, as stated: when the leading verb of some statement of the batch is
\* not CREATE, ALTER or DROP, the run returns an error and no collaborator
\* call (SQL, row count, precondition check, tool) is made for any statement.
C11_MalformedBatchRunsNothing ==
  ( /\ cmd = "run"
    /\ \E i \in DOMAIN queries :
         LeadingVerb(queries[i]) \notin {"CREATE", "ALTER", "DROP"} )
  => /\ trace = <<>>
     /\ result # "ok"
     /\ runPc = "returned" => result = "error"

\* an answer of a collaborator that is a fatal, non-duplicate failure
IsFatal(e) ==
  \/ IsDirect(e) /\ e.n \notin {0, 1050, 1061, 1062}
  \/ e.op = "HasOtherActiveConnections" /\ e.res # "none"
  \/ e.op = "CheckNewTableExists" /\ e.res # "false"
  \/ IsTool(e) /\ e.res = "err"

\* C12: in a run, a fatal failure of a statement, a precondition check or a
\* tool invocation is the last call the run makes (nothing is executed after
\* it, no rollback is issued) and the run returns an error.
C12_FatalErrorEndsRun ==
  cmd = "run" =>
    \A i \in DOMAIN trace :
      IsFatal(trace[i]) =>
        /\ i = Len(trace)
        /\ runPc = "returned"
        /\ result = "error"

\* a statement was executed, then one failed, and a table group was never
\* started
C12_Witness ==
  /\ cmd = "run"
  /\ result = "error"
  /\ pending # {}
  /\ \E i \in DOMAIN trace, j \in DOMAIN trace :
       /\ i < j
       /\ IsDirect(trace[i]) /\ trace[i].res = "ok"
       /\ IsDirect(trace[j]) /\ trace[j].n = 1064

\* C13, as stated: a direct execution answered by MySQL error 1062, 1061 or
\* 1050 is followed by a warning notification and never ends the run with
\* an error.
C13_DuplicateIsWarning ==
  cmd = "run" =>
    \A i \in DOMAIN trace :
      (IsDirect(trace[i]) /\ trace[i].n \in {1062, 1061, 1050}) =>
        /\ \E k \in DOMAIN notes : notes[k].op = "NotifyWarning"
        /\ ~(i = Len(trace) /\ result = "error")

\* the direct ALTER statements sent for table t
DirectAlters(t) ==
  {i \in DOMAIN trace :
     /\ IsDirect(trace[i])
     /\ trace[i].verb = "ALTER"
     /\ trace[i].names = <<Tbl(t)>>}

\* the ALTER fragments of table t in the order of the input batch
RECURSIVE FragmentsUpTo(_, _)
FragmentsUpTo(t, k) ==
  IF k = 0 THEN <<>>
  ELSE LET q == TrimSpace(queries[k]) IN
         FragmentsUpTo(t, k - 1)
           \o (IF /\ getQueryType(q) = "ALTER"
                  /\ extractTableName(q) = t
                  /\ extractAlterStatement(q) # <<>>
               THEN <<extractAlterStatement(q)>> ELSE <<>>)

\* C14, as stated: for a table at or below the threshold with several
\* ALTER statements, the SQL collaborator receives exactly one ALTER for the
\* table, the compound of all fragments in input order.
C14_OneCompoundAlter ==
  \A t \in Routed :
    ( /\ routed[t] <= config.ptOscThreshold
      /\ Len(FragmentsUpTo(t, Len(queries))) > 1
      /\ DirectAlters(t) # {} )
    => /\ Cardinality(DirectAlters(t)) = 1
       /\ \A i \in DirectAlters(t) :
            trace[i].parts =
              << <<"ALTER", "TABLE", t>>
                   \o JoinParts(FragmentsUpTo(t, Len(queries))) >>

ToolInvocations(t) ==
  {i \in DOMAIN trace : IsTool(trace[i]) /\ trace[i].names = <<Tbl(t)>>}

RouteDecisions(t) ==
  {i \in DOMAIN trace :
     trace[i].verb = "ROUTE" /\ trace[i].names = <<Tbl(t)>>}

\* C15, as stated: a table above the threshold has exactly one routing
\* decision and exactly one tool invocation, whose alter argument is all of
\* its fragments joined by ", " in input order.
C15_OneToolInvocationAsStated ==
  \A t \in Routed :
    (routed[t] > config.ptOscThreshold /\ GroupOver(t)) =>
      /\ Cardinality(RouteDecisions(t)) = 1
      /\ Cardinality(ToolInvocations(t)) = 1
      /\ \A i \in ToolInvocations(t) :
           trace[i].parts = <<JoinParts(FragmentsUpTo(t, Len(queries)))>>

\* C15, amended: a table above the threshold has exactly one routing
\* decision and at most one tool invocation, exactly one when the
\* active-connection check and the stale-artifact check pass; the alter
\* argument is all of its fragments joined by ", " in input order.
C15_OneToolInvocation ==
  \A t \in Routed :
    routed[t] > config.ptOscThreshold =>
      /\ Cardinality(RouteDecisions(t)) = 1
      /\ Cardinality(ToolInvocations(t)) <= 1
      /\ (GroupOver(t) /\ ConnectionCheckPassed(t) /\ NewTableAbsent(t))
           => Cardinality(ToolInvocations(t)) = 1
      /\ \A i \in ToolInvocations(t) :
           trace[i].parts = <<JoinParts(FragmentsUpTo(t, Len(queries)))>>

\* the tool ran once for users with both fragments, ADD before DROP
C15_Witness ==
  /\ "users" \in Routed
  /\ routed["users"] > config.ptOscThreshold
  /\ GroupOver("users")
  /\ \E i \in ToolInvocations("users") :
       trace[i].parts = << <<"ADD", "x", ",", "DROP", "y">> >>

\* the row count of t could not be resolved
Unresolved(t) ==
  \E i \in DOMAIN trace :
    /\ trace[i].verb = "ROUTE"
    /\ trace[i].names = <<Tbl(t)>>
    /\ trace[i].res = "err"

\* C20, as stated: when the row count of a table cannot be resolved the
\* run goes on, the tool is not invoked for the table and, after the
\* active-connection check, its ALTER is executed directly.
C20_UnresolvedIsSmallAsStated ==
  \A t \in DOMAIN groups :
    (Unresolved(t) /\ GroupOver(t)) =>
      /\ RouteIndex(t) < Len(trace)
      /\ ~ToolInvoked(t)
      /\ ConnectionCheckPassed(t) => DirectAlter(t)

\* C20, amended: when the row count of a table cannot be resolved the run
\* goes on, the tool is not invoked for the table and, unless the run is a
\* dry run, its ALTER is executed directly after the active-connection
\* check passed.
C20_UnresolvedIsSmall ==
  \A t \in DOMAIN groups :
    Unresolved(t) =>
      /\ ~ToolInvoked(t)
      /\ GroupOver(t) =>
           /\ RouteIndex(t) < Len(trace)
           /\ (~dryRun /\ ConnectionCheckPassed(t)) => DirectAlter(t)

\* a run that could not resolve a row count executed the ALTER directly and
\* returned success
C20_Witness ==
  /\ result = "ok"
  /\ \E t \in DOMAIN groups : Unresolved(t) /\ DirectAlter(t)

\* the password of the connection string of the invocation, <<>> when
\* there is none or the string is rejected
PasswordOf(variant, dsn) ==
  IF ParseDSN(variant, dsn).err THEN <<>> ELSE ParseDSN(variant, dsn).password

\* C16: for every connection string with a non-empty password and for
\* both tools, no element of the argument list and no logged command line
\* contains the password, and the started process is given the password
\* on its standard input.
C16_PasswordOnlyOnStdin ==
  LET pw == PasswordOf(exVariant, exInput.dsn) IN
    (pw # <<>>) =>
      /\ \A i \in DOMAIN exArgs : ~Contains(exArgs[i], pw)
      /\ \A i \in DOMAIN exLog : ~Contains(exLog[i], pw)
      /\ (exArgs # <<>>) => exStdin = pw \o <<"\n">>

\* the mode arguments in an argument list
ModeArgs(args) ==
  {i \in DOMAIN args : args[i] \in {<<"--dry-run">>, <<"--execute">>}}

\* C17: every argument list built for pt-online-schema-change holds
\* exactly one of --dry-run and --execute, and it is --dry-run if and only
\* if the caller forces dry-run or the configuration's DryRun is true.
C17_ExactlyOneMode ==
  (exVariant # "ExecutePurge" /\ exArgs # <<>>) =>
    /\ Cardinality(ModeArgs(exArgs)) = 1
    /\ \A i \in ModeArgs(exArgs) :
         (exArgs[i] = <<"--dry-run">>)
           <=> (exInput.forceDryRun \/ exInput.ptOsc.DryRun)

C17_Witness ==
  /\ exVariant # "ExecutePurge"
  /\ ~exInput.forceDryRun
  /\ exInput.ptOsc.DryRun
  /\ \E i \in DOMAIN exArgs : exArgs[i] = <<"--dry-run">>

\* the invocations of the external tools that started a process
StartedTools ==
  {j \in DOMAIN trace : /\ trace[j].verb \in {"PTOSC", "PTARCHIVER"}
                        /\ trace[j].args # <<>>}

\* C18: with the dry-run override every invocation of an external tool
\* made by run, cleanup or purge is started with --dry-run, whatever the
\* DryRun value of the configuration is.
C18_OverrideForcesDryRun ==
  dryRun => \A j \in StartedTools :
              \E i \in DOMAIN trace[j].args : trace[j].args[i] = <<"--dry-run">>

C18_Witness ==
  /\ dryRun
  /\ ~config.ptOsc.DryRun
  /\ \E j \in StartedTools :
       /\ trace[j].verb = "PTOSC"
       /\ \E i \in DOMAIN trace[j].args : trace[j].args[i] = <<"--dry-run">>

\* the statements handed to the SQL collaborator for execution
DdlEvents ==
  {j \in DOMAIN trace : trace[j].op \in {"ExecuteAlter", "AnalyzeTable"}}

\* a collaborator answer that stops an operation: a failed call, other
\* connections, a missing table, a stale working table, a retired table
\* that fills the buffer pool
FailedCheck(e) ==
  \/ e.res = "err"
  \/ e.op = "HasOtherActiveConnections" /\ e.res = "others"
  \/ e.op = "TableExists" /\ e.res = "false"
  \/ e.op = "CheckNewTableExists" /\ e.res = "true"
  \/ /\ e.op = "GetTableBufferPoolSizeMB"
     /\ e.n > config.bufferPoolSizeThresholdMB

\* a precondition of the operation does not hold: the batch does not
\* parse, the connection string names no database where one is needed,
\* the last answer stopped the operation, or the row counts of the table
\* and its working copy differ too much
PreconditionFailed ==
  \/ cmd = "run" /\ parseQueries(queries).err
  \/ /\ \/ cmd = "cleanupTriggers"
        \/ cmd = "cleanupOld" /\ config.bufferPoolSizeThresholdMB > 0
     /\ extractDatabaseNameFromDSN(config.dsn).err
  \/ trace # <<>> /\ FailedCheck(trace[Len(trace)])
  \/ /\ Len(trace) >= 2
     /\ trace[Len(trace)].op = "GetTableRowCountForSwap"
     /\ RowCountDiffExceeds(trace[Len(trace) - 1].n, trace[Len(trace)].n)

\* C19: with the dry-run override run, swap, the cleanup of the retired
\* table, of the working table and of the triggers hand no DDL statement
\* (CREATE, ALTER, DROP TABLE, DROP TRIGGER, RENAME, ANALYZE) to the SQL
\* collaborator, and an operation only returns an error when one of its
\* preconditions does not hold.
C19_DryRunHandsNoDdl ==
  dryRun =>
    /\ DdlEvents = {}
    /\ (result = "error") => PreconditionFailed

C19_Witness ==
  /\ dryRun
  /\ cmd = "cleanupOld"
  /\ result = "ok"
  /\ \E k \in DOMAIN notes : notes[k].op = "NotifySuccessWithQuery"
  /\ DdlEvents = {}

\* GetTableRowCount has returned
CountDone == rcPc \in {"returned", "routed"}

AllFailedBefore(i) == \A j \in 1..(i - 1) : ~rcQueries[j].ok

\* C21: GetTableRowCount queries INNODB_SYS_TABLESTATS, INNODB_TABLESTATS,
\* information_schema.TABLES and COUNT(*) in that order, a source only
\* after every earlier one failed, nothing but COUNT(*) after the first
\* statistics source that answered, and it returns an error only when the
\* COUNT(*) query failed.
C21_OrderedFallback ==
  /\ \A i \in DOMAIN rcQueries :
       IF rcQueries[i].tier = "COUNT"
       THEN /\ i = Len(rcQueries)
            /\ \/ i = Len(ApproxTiers) + 1 /\ AllFailedBefore(i)
               \/ /\ i > 1
                  /\ rcQueries[i - 1].ok
                  /\ rcQueries[i - 1].tier # "COUNT"
                  /\ AllFailedBefore(i - 1)
       ELSE /\ i <= Len(ApproxTiers)
            /\ rcQueries[i].tier = ApproxTiers[i]
            /\ AllFailedBefore(i)
  /\ (CountDone /\ rcOut.err) =>
       /\ rcQueries[Len(rcQueries)].tier = "COUNT"
       /\ ~rcQueries[Len(rcQueries)].ok

C21_Witness ==
  /\ CountDone
  /\ Len(rcQueries) = 4
  /\ rcQueries[4].ok
  /\ rcOut = [count |-> rcActual, err |-> FALSE]

\* the first statistics source that answered read 0
StatsReadZero ==
  \E i \in DOMAIN rcQueries :
    /\ rcQueries[i].tier # "COUNT"
    /\ rcQueries[i].ok
    /\ rcQueries[i].n = 0

\* the resolver's part of C22: after a statistics read of 0 the COUNT(*)
\* is sent and its answer, or an error when it fails, is returned
VerifiedZero ==
  (CountDone /\ StatsReadZero) =>
    LET last == rcQueries[Len(rcQueries)] IN
      /\ last.tier = "COUNT"
      /\ rcOut = IF last.ok THEN [count |-> rcActual, err |-> FALSE]
                 ELSE [count |-> 0, err |-> TRUE]

\* C22 as stated: a statistics read of 0 is verified with COUNT(*) and a
\* table that reads 0 but holds more rows than the threshold is not routed
\* to the direct ALTER.
C22_ZeroIsVerifiedAsStated ==
  /\ VerifiedZero
  /\ (rcPc = "routed" /\ StatsReadZero /\ rcActual > rcThreshold) =>
       rcRoute # "small"

\* C22: a statistics read of 0 is verified with COUNT(*), and a table that
\* reads 0 but holds more rows than the threshold is routed to the direct
\* ALTER only when that COUNT(*) fails.
C22_ZeroIsVerified ==
  /\ VerifiedZero
  /\ (rcPc = "routed" /\ StatsReadZero /\ rcActual > rcThreshold) =>
       (rcRoute = "small" <=> ~rcQueries[Len(rcQueries)].ok)

C22_Witness ==
  /\ rcPc = "routed"
  /\ StatsReadZero
  /\ rcActual > rcThreshold
  /\ rcQueries[Len(rcQueries)].ok
  /\ rcRoute = "large"

\* the buffer pool size of the retired table was obtained and is within
\* the ceiling
SizeWithinCeiling(j) ==
  /\ trace[j].op = "GetTableBufferPoolSizeMB"
  /\ trace[j].res = "ok"
  /\ trace[j].n <= config.bufferPoolSizeThresholdMB

\* C23: with a buffer pool ceiling configured, the DROP TABLE of the
\* retired table is only issued after its buffer pool size was obtained
\* and found within the ceiling; in every other case the cleanup returns
\* an error and issues no DROP.
C23_CeilingNeverBypassed ==
  (cmd = "cleanupOld" /\ config.bufferPoolSizeThresholdMB > 0) =>
    /\ \A j \in DOMAIN trace :
         (trace[j].op = "ExecuteAlter" /\ trace[j].verb = "DROP") =>
           \E i \in 1..(j - 1) : SizeWithinCeiling(i)
    /\ (clPc = "returned" /\ ~\E i \in DOMAIN trace : SizeWithinCeiling(i))
         => result = "error"

\* the DROP TRIGGER statements sent so far
TriggerDropEvents ==
  SelectSeq(trace, LAMBDA e : e.op = "ExecuteAlter" /\ e.verb = "DROP TRIGGER")

\* every one of the three triggers was tried, in order, and an error is
\* returned exactly when one of them could not be dropped
AllTriggersTried ==
  LET db == extractDatabaseNameFromDSN(config.dsn).name IN
    /\ Len(TriggerDropEvents) = 3
    /\ \A i \in 1..3 :
         TriggerDropEvents[i].names
           = <<TriggerName(db, tableName, TriggerSuffixes[i])>>
    /\ (result = "error")
         <=> \E i \in 1..3 : TriggerDropEvents[i].res # "ok"

IsPurgeOfOld(e) ==
  /\ e.op = "ExecutePurge"
  /\ e.names = <<<<tableName, "_old">>>>

IsDropOfOld(e) ==
  /\ e.op = "ExecuteAlter"
  /\ e.verb = "DROP"
  /\ e.names = <<OldTbl(tableName)>>

\* C25: when pt-archiver is enabled, the cleanup of the retired table runs
\* the purge against <table>_old before DROP TABLE <table>_old is issued,
\* and a failed purge ends the cleanup with an error and without the DROP.
C25_PurgeBeforeDrop ==
  (cmd = "cleanupOld" /\ config.ptArchiver.Enabled) =>
    /\ \A j \in DOMAIN trace :
         IsDropOfOld(trace[j]) =>
           \E i \in 1..(j - 1) : IsPurgeOfOld(trace[i]) /\ trace[i].res = "ok"
    /\ \A i \in DOMAIN trace :
         (IsPurgeOfOld(trace[i]) /\ trace[i].res = "err") =>
           /\ clPc = "returned"
           /\ result = "error"
           /\ i = Len(trace)

C25_Witness ==
  /\ cmd = "cleanupOld"
  /\ config.ptArchiver.Enabled
  /\ clPc = "returned"
  /\ result = "ok"
  /\ \E j \in DOMAIN trace :
       /\ IsDropOfOld(trace[j])
       /\ \E i \in 1..(j - 1) : IsPurgeOfOld(trace[i])

\* something other than the notifier stopped the operation
FailureCause ==
  \/ PreconditionFailed
  \/ /\ cmd = "cleanupTriggers"
     /\ \E j \in DOMAIN trace : trace[j].res = "err"
  \/ renameRes = "err"

\* statement i of the batch was sent: on its own, as a fragment of its
\* table's ALTER work, or inside the invocation of the tool for its table
StatementSent(i) ==
  LET q == parsed[i]
      part == extractAlterStatement(q.Query)
  IN IF q.QueryType = "ALTER" /\ q.TableName # ""
     THEN \/ part = <<>>
          \/ \E j \in DOMAIN trace :
               /\ trace[j].names = <<Tbl(q.TableName)>>
               /\ \/ /\ trace[j].op = "ExecuteAlter"
                     /\ trace[j].parts
                          = << <<"ALTER", "TABLE", q.TableName>> \o part >>
                  \/ trace[j].verb = "PTOSC"
     ELSE \E j \in DOMAIN trace :
            trace[j].op = "ExecuteAlter" /\ trace[j].parts = <<q.Query>>

\* the operation did everything it is there to do
WorkDone ==
  CASE cmd = "run" -> \A i \in DOMAIN parsed : StatementSent(i)
    [] cmd = "swap" -> renameRes = "ok"
    [] cmd = "cleanupOld" ->
         \E j \in DOMAIN trace : IsDropOfOld(trace[j]) /\ trace[j].res = "ok"
    [] cmd = "cleanupNew" ->
         \E j \in DOMAIN trace :
           trace[j].verb = "DROP" /\ trace[j].names = <<NewTbl(tableName)>>
    [] cmd = "cleanupTriggers" -> Len(TriggerDropEvents) = 3
    [] cmd = "purge" ->
         \E j \in DOMAIN trace : trace[j].op = "ExecutePurge"
    [] OTHER -> TRUE

\* C26: a failure of the notifier never changes the operation: with every
\* call of the notifier in run, swap, cleanup and purge returning an
\* error, the operation still returns an error only when something other
\* than the notifier stopped it, and otherwise sends every statement and
\* starts every tool it is there for.
C26_SinkFailureIsIgnored ==
  sinkDown =>
    /\ (result = "error") => FailureCause
    /\ (result = "ok" /\ ~dryRun) => WorkDone

C26_Witness ==
  /\ sinkDown
  /\ cmd = "run"
  /\ ~dryRun
  /\ result = "ok"
  /\ \E k \in DOMAIN notes : notes[k].failed
  /\ \E j \in DOMAIN trace : trace[j].verb = "PTOSC"
  /\ \E j \in DOMAIN trace : trace[j].op = "ExecuteAlter"

\* the notifications that announce a failure
FailureNotes ==
  {"NotifyFailure", "NotifyFailureWithQuery", "NotifyFailureWithQueryAndLog",
   "NotifyConnectionCheckFailure", "NotifyPtOscPreCheckFailure",
   "NotifyTriggerCleanupFailure", "NotifyWarning"}

\* C27: whenever run, swap or a cleanup returns an error, a notification
\* of the failure has been sent before it returns.
C27_ErrorIsAnnounced ==
  (cmd \in {"run", "swap", "cleanupOld", "cleanupNew", "cleanupTriggers"}
     /\ result = "error") =>
    \E k \in DOMAIN notes : notes[k].op \in FailureNotes

(***************************************************************************)
(* C30: malformed connection strings                                       *)
(***************************************************************************)
\* the string has no `@`
LacksAt(dsn) == ~\E i \in 1..Len(dsn) : dsn[i] \in {"@tcp", "@unix"}

\* the string has no `tcp(`
LacksTcpParen(dsn) ==
  ~\E i \in 1..(Len(dsn) - 1) : dsn[i] \in {"@tcp", "tcp"} /\ dsn[i + 1] = "("

\* the port between `:` and `)` is not a number
NonNumericPort(dsn) ==
  \E i \in 2..(Len(dsn) - 1) :
    dsn[i - 1] = ":" /\ dsn[i + 1] = ")" /\ dsn[i] \notin NumberTokens

\* nothing follows the `/` that ends the address, or there is no `/`
NoDatabaseSegment(dsn) ==
  \/ ~Contains(dsn, <<"/">>)
  \/ dsn[Len(dsn)] = "/"

Malformed(dsn) ==
  LacksAt(dsn) \/ LacksTcpParen(dsn) \/ NonNumericPort(dsn)
    \/ NoDatabaseSegment(dsn)

\* C30: once the executor has handled its input, a connection string that
\* lacks `@`, lacks `tcp(`, has a non-numeric port or has no database
\* segment was answered by the parser of that executor with an error and
\* five empty fields
C30_MalformedDsnRejected ==
  (exPc # "start" /\ Malformed(exInput.dsn))
    => ParseDSN(exVariant, exInput.dsn) = DsnError

(***************************************************************************)
(* C28: the order of the table work groups                                 *)
(***************************************************************************)
\* C28: the table work groups are processed in a fixed order: whenever the
\* loop over the groups is about to take a group, the batch and the answers
\* received so far leave only one group it can take next, so two runs over
\* the same batch with the same answers execute the same sequence
C28_GroupOrderIsFixed ==
  \A t1, t2 \in Tables :
    (ENABLED RunNextTable(t1) /\ ENABLED RunNextTable(t2)) => t1 = t2

(***************************************************************************)
(* C29: the order of the statements within a run                           *)
(***************************************************************************)
IsPrefix(a, b) == Len(a) <= Len(b) /\ a = SubSeq(b, 1, Len(a))

\* positions in the trace of the CREATE/DROP statements sent for table t
OtherSentIdx(t) ==
  {j \in DOMAIN trace : /\ trace[j].op = "ExecuteAlter"
                        /\ trace[j].verb # "ALTER"
                        /\ trace[j].names = <<Tbl(t)>>}

\* positions of the ALTER work of table t: a direct ALTER or a tool run
AlterWorkIdx(t) ==
  {j \in DOMAIN trace : /\ trace[j].names = <<Tbl(t)>>
                        /\ \/ trace[j].verb = "PTOSC"
                           \/ /\ trace[j].op = "ExecuteAlter"
                              /\ trace[j].verb = "ALTER"}

\* the CREATE/DROP statements sent for table t ("" for the statements
\* without a table name), in the order they were sent
SentOf(t) ==
  LET Is(e) == /\ e.op = "ExecuteAlter"
               /\ e.verb # "ALTER"
               /\ e.names = <<Tbl(t)>>
      s == SelectSeq(trace, Is)
  IN [j \in 1..Len(s) |-> s[j].parts[1]]

\* the statements of the batch that are not ALTERs and name table t, in
\* input order
InputOf(t) ==
  LET Is(q) == q.TableName = t /\ q.QueryType # "ALTER"
      s == SelectSeq(parsed, Is)
  IN [j \in 1..Len(s) |-> s[j].Query]

\* the statements are sent in input order, the ones of a table before its
\* ALTER work, the ones without a table after every group
StatementOrder ==
  /\ \A t \in DOMAIN groups :
       /\ IsPrefix(SentOf(t), InputOf(t))
       /\ \A i \in OtherSentIdx(t), j \in AlterWorkIdx(t) : i < j
  /\ IsPrefix(SentOf(""), InputOf(""))
  /\ OtherSentIdx("") # {} =>
       /\ pending = {} /\ cur = ""
       /\ \A i \in DOMAIN trace, j \in OtherSentIdx("") :
            trace[i].names # <<Tbl("")>> => i < j

\* C29 as stated: in every run, a table whose ALTER work has begun has had
\* all of its CREATE/DROP statements executed
C29_OthersBeforeAlterAsStated ==
  cmd = "run" =>
    /\ StatementOrder
    /\ \A t \in DOMAIN groups :
         AlterWorkIdx(t) # {} => SentOf(t) = InputOf(t)

\* C29: within a run, the CREATE/DROP statements of a table are executed
\* in input order and before any of its ALTER work, all of them unless the
\* run is a dry run; the statements without a table name are executed in
\* input order and only after all table groups have completed
C29_OthersBeforeAlter ==
  cmd = "run" =>
    /\ StatementOrder
    /\ \A t \in DOMAIN groups :
         (~dryRun /\ AlterWorkIdx(t) # {}) => SentOf(t) = InputOf(t)

\* a finished run that sent two statements of one table, then did the
\* table's ALTER work, then sent two statements without a table name
C29_Witness ==
  /\ cmd = "run" /\ result = "ok" /\ ~dryRun
  /\ Len(SentOf("orders")) = 2
  /\ AlterWorkIdx("orders") # {}
  /\ Len(SentOf("")) = 2

(***************************************************************************)
(* C31: the parameters after the database name                             *)
(***************************************************************************)
\* C31: when the executor was handed a well-formed connection string whose
\* database name is followed by `?params`, the parser of that executor
\* returns the database name up to the `?`, and no element of the argument
\* list of the tool holds the `?` or what follows it
C31_ParamsStripped ==
  (exArgs # <<>> /\ Contains(exInput.dsn, <<"?">>)) =>
    /\ ~Contains(ParseDSN(exVariant, exInput.dsn).database, <<"?">>)
    /\ \A i \in DOMAIN exArgs : ~Contains(exArgs[i], <<"?">>)

(***************************************************************************)
(* C32: the names of the artifacts of a table                              *)
(***************************************************************************)
\* the text of a name, whatever pieces it was put together from
Flat(name) == SelectSeq(name, LAMBDA w : w # "")

\* the table a run was working on when it made call j: the one of the last
\* routing decision before it
RoutedTableAt(j) ==
  LET R == {r \in 1..j : trace[r].verb = "ROUTE"}
      r == CHOOSE k \in R : \A m \in R : m <= k
  IN trace[r].names[1][2]

LargeTables == {t \in DOMAIN routed : routed[t] > config.ptOscThreshold}

\* C33: a run in which more than one table exceeded the row-count threshold
\* returns an error
C33_SeveralLargeTablesFail ==
  (cmd = "run" /\ runPc = "returned" /\ Cardinality(LargeTables) > 1)
    => result = "error"

(***************************************************************************)
(* C34: the no-drop flags in dry-run mode                                  *)
(***************************************************************************)
HasArg(a) == \E i \in DOMAIN exArgs : exArgs[i] = <<a>>

\* C34: in the argument list built for pt-online-schema-change in dry-run
\* mode (forced by the caller or set in the configuration)
\* --no-drop-triggers and --no-drop-new-table are absent even when enabled
\* and --no-drop-old-table is present when enabled; in execute mode each of
\* the three flags is present exactly when enabled
C34_NoDropFlagsInDryRun ==
  (exVariant # "ExecutePurge" /\ exArgs # <<>>) =>
    IF exInput.forceDryRun \/ exInput.ptOsc.DryRun
    THEN /\ ~HasArg("--no-drop-triggers")
         /\ ~HasArg("--no-drop-new-table")
         /\ HasArg("--no-drop-old-table") <=> exInput.ptOsc.NoDropOldTable
    ELSE /\ HasArg("--no-drop-triggers") <=> exInput.ptOsc.NoDropTriggers
         /\ HasArg("--no-drop-new-table") <=> exInput.ptOsc.NoDropNewTable
         /\ HasArg("--no-drop-old-table") <=> exInput.ptOsc.NoDropOldTable

(***************************************************************************)
(* C35: the run state of the second invocation                             *)
(***************************************************************************)
\* the lines the child of the second invocation wrote to stream s
SecondLines(s) == SubSeq(emitted[s], late[s].before + 1, Len(emitted[s]))

\* some line of the second child
IsSecondLine(line) ==
  \E s \in Streams : \E k \in DOMAIN SecondLines(s) : SecondLines(s)[k] = line

\* C35: in the second of two invocations on one executor instance the
\* summary, the error messages and the error flag hold only what the
\* process of that invocation wrote, and a failure verdict comes from its
\* exit status or from one of its lines
C35_RunStateIsFresh ==
  exRound = 2 =>
    /\ \A i \in DOMAIN outputSummary :
         \E s \in Streams : \E k \in DOMAIN SecondLines(s) :
           outputSummary[i] = SummaryEntry(s, SecondLines(s)[k])
    /\ \A i \in DOMAIN errorMessages : IsSecondLine(errorMessages[i])
    /\ hasError =>
         \E line \in ToolLines :
           IsSecondLine(line) /\ containsErrorPattern(exVariant, line)
    /\ verdict = "failure" =>
         \/ exitCode # 0
         \/ \E line \in ToolLines :
              IsSecondLine(line) /\ containsErrorPattern(exVariant, line)

(***************************************************************************)
(* C36: every statement is executed once                                   *)
(***************************************************************************)
\* the calls that executed statement i of the batch: the direct execution
\* of its text, or for an ALTER of a table the direct ALTER of its fragment
\* or the tool run whose --alter holds the fragment
ExecutionsOf(i) ==
  LET q == parsed[i]
      part == extractAlterStatement(q.Query)
  IN IF q.QueryType = "ALTER" /\ q.TableName # ""
     THEN {j \in DOMAIN trace :
             /\ trace[j].names = <<Tbl(q.TableName)>>
             /\ \/ /\ trace[j].op = "ExecuteAlter"
                   /\ trace[j].parts
                        = << <<"ALTER", "TABLE", q.TableName>> \o part >>
                \/ /\ trace[j].verb = "PTOSC"
                   /\ part # <<>>
                   /\ Contains(trace[j].parts[1], part)}
     ELSE {j \in DOMAIN trace :
             trace[j].op = "ExecuteAlter" /\ trace[j].parts = <<q.Query>>}

\* C36: when a run that is not a dry run has returned success, every
\* statement of the batch has been executed exactly once, directly or as
\* part of one compound ALTER or tool invocation
C36_EveryStatementOnce ==
  (cmd = "run" /\ result = "ok" /\ ~dryRun) =>
    \A i \in DOMAIN parsed : Cardinality(ExecutionsOf(i)) = 1

(***************************************************************************)
(* C37: a rejected retired table is left untouched                         *)
(***************************************************************************)
\* the cache-residency check found the retired table above the ceiling
ResidencyRejected ==
  /\ cmd = "cleanupOld"
  /\ config.bufferPoolSizeThresholdMB > 0
  /\ \E j \in DOMAIN trace :
       /\ trace[j].op = "GetTableBufferPoolSizeMB"
       /\ trace[j].res = "ok"
       /\ trace[j].n > config.bufferPoolSizeThresholdMB

\* C37: when the cache-residency check has rejected the retired table, the
\* cleanup has neither dropped <table>_old nor purged its rows
C37_RejectedTableUntouched ==
  ResidencyRejected =>
    \A j \in DOMAIN trace :
      /\ ~(trace[j].op = "ExecuteAlter" /\ trace[j].verb = "DROP")
      /\ ~(trace[j].op = "ExecutePurge" /\ ~trace[j].dry)

(***************************************************************************)
(* C38: nothing is executed next to another connection                     *)
(***************************************************************************)
\* the check is enabled and every time the run asked, another connection
\* of the same user was there
OthersThroughout ==
  /\ cmd = "run"
  /\ config.connectionCheck
  /\ \A j \in DOMAIN trace :
       trace[j].op = "HasOtherActiveConnections" => trace[j].res = "others"

\* C38: with the active-connection check enabled and another connection
\* of the same user present throughout, the run sends no statement to the
\* database and starts no tool
C38_NoDdlNextToOthers ==
  OthersThroughout =>
    \A j \in DOMAIN trace :
      trace[j].op # "ExecuteAlter" /\ trace[j].verb # "PTOSC"

(***************************************************************************)
(* C39: start and terminal notifications                                   *)
(***************************************************************************)
StartNotes == {"NotifyStartWithQuery", "NotifyTriggerCleanupStart"}

SuccessNotes ==
  {"NotifySuccessWithQuery", "NotifySuccessWithQueryAndLog",
   "NotifyDryRunResult", "NotifyPtOscCompletionWithNewTableCount",
   "NotifyTriggerCleanupSuccess"}

EndFailureNotes ==
  {"NotifyFailureWithQuery", "NotifyFailureWithQueryAndLog",
   "NotifyTriggerCleanupFailure"}

\* a later `started` notification follows notification i
StartFollows(i) ==
  \E k \in (i + 1)..Len(notes) : notes[k].op \in StartNotes

\* the terminal notifications between `started` notification i and the
\* next `started` notification
TerminalsAfter(i) ==
  {k \in (i + 1)..Len(notes) :
     /\ notes[k].op \in SuccessNotes \cup EndFailureNotes
     /\ \A m \in (i + 1)..(k - 1) : notes[m].op \notin StartNotes}

\* C39: every `started` notification of run, swap, cleanup, purge and
\* trigger cleanup is followed by at most one terminal notification
\* (success, failure or dry-run result), which names the same task and
\* table, and by exactly one once the operation has returned or gone on to
\* its next step
C39_StartHasOneTerminal ==
  \A i \in DOMAIN notes :
    notes[i].op \in StartNotes =>
      /\ Cardinality(TerminalsAfter(i)) <= 1
      /\ \A k \in TerminalsAfter(i) :
           notes[k].task = notes[i].task /\ notes[k].tbl = notes[i].tbl
      /\ (result # "none" \/ StartFollows(i)) =>
           Cardinality(TerminalsAfter(i)) = 1

\* a run that announced two steps and failed in the second
C39_Witness ==
  /\ result = "error"
  /\ \E i, k \in DOMAIN notes :
       /\ i < k
       /\ notes[i].op \in StartNotes
       /\ notes[k].op \in StartNotes
       /\ notes[Len(notes)].op \in EndFailureNotes

(***************************************************************************)
(* C40: the transcript under every interleaving                            *)
(***************************************************************************)
\* the lines the drain loop of stream s has read: what the child wrote
\* less what was left in the pipe
LinesRead(s) == SubSeq(emitted[s], 1, Len(emitted[s]) - Len(pipe[s]))

\* the entries of the summary that came from stream s
EntriesOf(s) ==
  SelectSeq(outputSummary,
            LAMBDA e : e[1] = (IF s = "stderr" THEN "[STDERR]" ELSE "[STDOUT]"))

\* the drain loops of the invocation keep a summary: all but logOutput,
\* which ExecuteAlterWithDryRunResult starts when it is not a dry run
KeepsSummary ==
  \/ exVariant # "ExecuteAlterWithDryRunResult"
  \/ exInput.forceDryRun
  \/ exInput.ptOsc.DryRun

\* C40: when both drain loops of an invocation have ended, the summary
\* holds every line each loop read exactly once, in the order it was read
C40_TranscriptHasEveryLineOnce ==
  (exRound = 1 /\ KeepsSummary /\ \A s \in Streams : drainPc[s] = "done") =>
    \A s \in Streams :
      EntriesOf(s) = [k \in DOMAIN LinesRead(s) |->
                        SummaryEntry(s, LinesRead(s)[k])]

=============================================================================
